---- MODULE Spec2Model ----
(***************************************************************************)
(* Reactive synchronisation engine of rxxxt: the per-session state store   *)
(* (rxxxt/execution.py State, rxxxt/newstate.py State), the component node *)
(* tree (rxxxt/component.py, rxxxt/node.py) and the session orchestrator   *)
(* (rxxxt/session.py).                                                     *)
(*                                                                         *)
(* One session is modelled.  A context stack is named by a short id        *)
(* ("root", "P", "A", "B"); StackOf gives the stack it stands for.         *)
(* The component tree is the one of a small application: P renders a div   *)
(* holding A and B, or A only, depending on the global key it reads.       *)
(***************************************************************************)
EXTENDS Integers, Sequences, FiniteSets, TLC

\* ---------------------------------------------------------------- bounds
MaxBatch == 2          \* longest inbound event batch
MaxOutputEvents == 1   \* cap of the output-event queue

\* ------------------------------------------------------------ vocabulary
None == "None"
Values == {"v1", "v2"}

\* keys are sequences of characters, so that k[0] (the prefix) can be read
KG == <<"g">>          \* "global;..."  durable application state
KA == <<"#", "a">>     \* "#local;<sid of A>;..." ephemeral
KB == <<"#", "b">>     \* "#local;<sid of B>;..." ephemeral
KL == <<"!", "l">>     \* "!location"   protocol
Keys == {KG, KA, KB, KL}

\* the values written to each key
ValuesOf(k) == IF k = KG THEN {"v1", "v2"} ELSE {"v1"}

Comps == {"P", "A", "B"}
Contexts == {"root"} \cup Comps

Seg(isint, txt) == [isint |-> isint, txt |-> txt]

\* ContextStack of every context of the application
StackOf(c) ==
  CASE c = "root" -> <<Seg(FALSE, "root")>>
    [] c = "P" -> <<Seg(FALSE, "root"), Seg(TRUE, "0")>>
    [] c = "A" -> <<Seg(FALSE, "root"), Seg(TRUE, "0"), Seg(FALSE, "inner"), Seg(TRUE, "0"), Seg(TRUE, "0")>>
    [] c = "B" -> <<Seg(FALSE, "root"), Seg(TRUE, "0"), Seg(FALSE, "inner"), Seg(TRUE, "0"), Seg(TRUE, "1")>>

RECURSIVE sid_of(_)
sid_of(stack) ==
  IF stack = <<>> THEN <<>>
  ELSE <<Head(stack).txt, ";">> \o sid_of(Tail(stack))

\* the bytes fed to the hasher, one token per key followed by ";"
get_context_stack_sid(c) == sid_of(StackOf(c))

VARIABLES
  key_store,        \* State._key_str_store/_key_cell_store, KeyState.value: key -> value or None
  key_subscribers,  \* State._key_subscribers, KeyState.consumers: key -> set of contexts
  pending_updates,  \* State._pending_updates
  output_events,    \* State._output_events
  update_event,     \* State._update_event / Session._update_event (is_set)
  children,         \* Node.children of every context (component nodes only)
  pending_renders,  \* Session._pending_renders
  minted_token,     \* history: the token minted by the last render_update (Session._last_token)
  phase,            \* "new" (constructed), "live" (after init), "destroyed"
  render_count,     \* history: renders of each component in the last session call
  popped,           \* history: the set drained by the last Session.update
  batch_multi,      \* history: contexts the last event batch requested while already pending
  popped_multi,     \* history: batch_multi of the batch before the last Session.update
  last,             \* history: the last operation and its arguments
  inner,            \* len(ComponentNode.children) of every component node
  workers,          \* Component._worker_tasks: the state of the worker task of every component
  persistent,       \* SessionConfig.persistent
  node_state,       \* history: "absent", "unexpanded", "expanded" or "destroyed", per node
  hooks,            \* history: the hooks run by the last session call, in order
  handled,          \* history: handler invocations of each component in the last session call
  addressed,        \* history: events of the last batch that name a handler of each component
  stale,            \* history: events of the last batch that name no handler
  invalid,          \* history: events of the last batch whose arguments fail validation
  ws,               \* WebsocketContext: "none", "open" (accepted and connected) or "closed"
  response,         \* what the application sent last: an HTTP response, a message or a close
  raised,           \* history: the exception the last session call ended with, or None
  jwt,              \* the state token a client holds (text of three segments), or NoJwt
  now,              \* datetime.now(tz=timezone.utc), in ticks
  resolved,         \* history: what the last resolution of jwt returned or raised
  kept,             \* a state token the client kept, and the store when it was issued
  returned,         \* history: the output events the last render pass returned
  lst,              \* a list of keyed items: the nodes rendered, what each item read
  comp,             \* one component: its asyncio tasks, the coroutines closed, where its destroy stands
  cyc,              \* the calls of Session.update in flight, by await point
  code,             \* user code: the components whose render raises, and those whose render requests an update
  router,           \* a Router: its routes, the location, the element it rendered
  waiter,           \* a caller of Session.wait_for_update: where it stands
  stacks,           \* two context stacks and the text hashed for each
  sent,             \* the websocket loop: the events of its last message, whether it is closing
  view              \* TextNode.text of every component, the HTML parts of the last render pass, the roots updated since

vars == <<key_store, key_subscribers, pending_updates, output_events, update_event,
          children, pending_renders, minted_token, phase, render_count, popped, batch_multi,
          popped_multi, last, inner, workers, persistent, node_state, hooks, handled,
          addressed, stale, invalid, ws, response, raised, jwt, now, resolved, kept, returned, lst, comp, cyc, code, view,
          router, waiter, stacks, sent>>

\* the variables the session and the transport never touch
rest == <<router, waiter, stacks, sent>>
side == <<jwt, now, resolved, kept, returned, lst, comp, cyc, code, view, rest>>

NoRenders == [c \in Comps |-> 0]
NoChildren == [c \in Contexts |-> <<>>]
\* a state token, as the durable map it carries; NoToken is Python's None
NoToken == [present |-> FALSE, data |-> [k \in Keys |-> None]]
Token(data) == [present |-> TRUE, data |-> data]

\* what the transport carried last: a status or a close code, whether HTML
\* was sent, and the state token sent
Response(status, html, token) == [status |-> status, html |-> html, token |-> token]
NoResponse == Response("-", FALSE, NoToken)

\* no token held, and no resolution made
NoJwt == [parts |-> 0]
NoResult == [exc |-> "-", val |-> <<>>]

\* a call returns a value or raises
Return(val) == [exc |-> None, val |-> val]
Raise(exc) == [exc |-> exc, val |-> <<>>]

\* the mutable objects of a session as one value, threaded through the calls
Cur ==
  [key_store |-> key_store, key_subscribers |-> key_subscribers,
   pending_updates |-> pending_updates, output_events |-> output_events,
   update_event |-> update_event, children |-> children,
   pending_renders |-> pending_renders, render_count |-> NoRenders, multi |-> {},
   inner |-> inner, workers |-> workers, persistent |-> persistent,
   node_state |-> node_state, hooks |-> <<>>, handled |-> NoRenders, raised |-> None,
   code |-> code, shown |-> view.shown]

Commit(s) ==
  /\ key_store' = s.key_store
  /\ key_subscribers' = s.key_subscribers
  /\ pending_updates' = s.pending_updates
  /\ output_events' = s.output_events
  /\ update_event' = s.update_event
  /\ children' = s.children
  /\ pending_renders' = s.pending_renders
  /\ render_count' = s.render_count
  /\ inner' = s.inner
  /\ workers' = s.workers
  /\ persistent' = s.persistent
  /\ node_state' = s.node_state
  /\ hooks' = s.hooks
  /\ handled' = s.handled
  /\ raised' = s.raised

\* ctx: the calling context of a read; "changed" or "same" for a write;
\* the operation before it for an update
Op(name, ctx, keys) == [op |-> name, ctx |-> ctx, keys |-> keys]

\* ------------------------------------------- rxxxt/execution.py  class State
State_set_update_event(s) ==
  [s EXCEPT !.update_event = (s.pending_updates # {} \/ Len(s.output_events) > 0)]

State_request_context_updates(s, ids) ==
  State_set_update_event(
    [s EXCEPT !.pending_updates = @ \cup ids,
              !.multi = @ \cup (ids \cap s.pending_updates)])

\* faulty variant: the subscribers of every key are notified
State_request_key_updates_all(s, keys) ==
  State_request_context_updates(s, UNION {s.key_subscribers[k] : k \in Keys})

State_request_key_updates(s, keys) ==
  State_request_context_updates(s, UNION {s.key_subscribers[k] : k \in keys})

\* data is a function from the written keys to their new values
State_update_state_strs(s, data) ==
  State_request_key_updates(
    [s EXCEPT !.key_store = [k \in DOMAIN @ |-> IF k \in DOMAIN data THEN data[k] ELSE @[k]]],
    DOMAIN data)

State_get_key_str(s, key) == s.key_store[key]

State_subscribe(s, cid, key) ==
  [s EXCEPT !.key_subscribers[key] = @ \cup {cid}]

State_unsubscribe(s, cid, key) ==
  [s EXCEPT !.key_subscribers[key] = @ \ {cid}]

\* line 90 tests and removes `id`, the builtin, not `cid`: no subscriber set changes
State_unsubscribe_all(s, cid) ==
  State_set_update_event(
    [s EXCEPT !.pending_updates = @ \ {cid},
              !.multi = @ \ {cid}])

State_add_output_event(s, event) ==
  State_set_update_event([s EXCEPT !.output_events = Append(@, event)])

State_pop_output_events(s) == [s EXCEPT !.output_events = <<>>]

State_pop_updates(s) ==
  State_set_update_event([s EXCEPT !.pending_updates = {}, !.multi = {}])

State_get_active_keys(s, inactive_prefixes) ==
  {k \in Keys : s.key_subscribers[k] # {}}
    \cup {k \in Keys : s.key_store[k] # None /\ (Len(k) = 0 \/ k[1] \notin inactive_prefixes)}

State_user_data(s) ==
  [k \in Keys |-> IF k \in State_get_active_keys(s, {"!", "#"}) THEN s.key_store[k] ELSE None]

State_cleanup(s) ==
  LET active_keys == State_get_active_keys(s, {"#"})
  IN [s EXCEPT !.key_store = [k \in Keys |-> IF k \in active_keys THEN @[k] ELSE None]]

\* faulty variant: only a key that has a value is subscribed to
Context_get_state_str_subscribe_valued(s, cid, key) ==
  IF State_get_key_str(s, key) = None THEN s ELSE State_subscribe(s, cid, key)

\* Context._get_state_str_subscribe: the value is read, then the reader subscribed
Context_get_state_str_subscribe(s, cid, key) == State_subscribe(s, cid, key)

\* faulty variant: the request is dropped
Context_request_update_dropped(s, cid) == s

Context_request_update(s, cid) == State_request_context_updates(s, {cid})

NavigateOutputEvent(location) == [event |-> "navigate", location |-> location]

Context_navigate(s, location) ==
  State_add_output_event(State_update_state_strs(s, (KL :> location)), NavigateOutputEvent(location))

UseWebsocketOutputEvent(websocket) == [event |-> "use-websocket", websocket |-> websocket]

Context_use_websocket(s, websocket) == State_add_output_event(s, UseWebsocketOutputEvent(websocket))

Context_unsubscribe_all(s, cid) == State_unsubscribe_all(s, cid)

\* Context.set_state is called by the state descriptors (rxxxt/state.py line 40);
\* as in Execution.set_state of rxxxt/new.py an unchanged value is not written
Context_set_state(s, key, value) ==
  IF value = s.key_store[key] THEN s
  ELSE State_update_state_strs(s, (key :> value))

\* ------------------------------------------- rxxxt/newstate.py  class State
\* consume() of a context-bound consumer asks for an update of its context
StateConsumer_consume(s, consumers) ==
  IF consumers = {} THEN s ELSE State_request_context_updates(s, consumers)

KeyState_set(s, key, value) ==
  StateConsumer_consume([s EXCEPT !.key_store[key] = value], s.key_subscribers[key])

RECURSIVE NewState_set_many(_, _)
NewState_set_many(s, kvs) ==
  IF DOMAIN kvs = {} THEN s
  ELSE LET k == CHOOSE x \in DOMAIN kvs : TRUE
       IN NewState_set_many(KeyState_set(s, k, kvs[k]), [x \in DOMAIN kvs \ {k} |-> kvs[x]])

\* KeyState.destroy: consumers detached and cleared, value dropped
NewState_delete(s, key) ==
  [s EXCEPT !.key_store[key] = None, !.key_subscribers[key] = {}]

\* faulty variant: the prefix is not looked at, only consumers keep a key
NewState_get_active_keys_consumers(s, inactive_prefixes) ==
  {k \in Keys : s.key_subscribers[k] # {}}

NewState_get_active_keys(s, inactive_prefixes) ==
  {k \in DOMAIN s.key_store : (s.key_store[k] # None \/ s.key_subscribers[k] # {})
                /\ (Len(k) = 0 \/ k[1] \notin inactive_prefixes \/ s.key_subscribers[k] # {})}

\* faulty variant: every key that has a value is returned
NewState_get_key_values_all(s, inactive_prefixes) ==
  [k \in Keys |-> s.key_store[k]]

NewState_get_key_values(s, inactive_prefixes) ==
  [k \in Keys |-> IF k \in NewState_get_active_keys(s, inactive_prefixes) THEN s.key_store[k] ELSE None]

\* `return self.delete(key)` inside the loop: the first inactive key is deleted
\* and the call returns.  Which key is first is the insertion order of the
\* dict, which is not part of the state here: every inactive key may be it.
NewState_cleanup(s, inactive_prefixes) ==
  LET active_keys == NewState_get_active_keys(s, inactive_prefixes)
      inactive_keys == {k \in DOMAIN s.key_store : s.key_store[k] # None /\ k \notin active_keys}
  IN IF inactive_keys = {} THEN {s}
     ELSE {NewState_delete(s, k) : k \in inactive_keys}

NewState_destroy(s) ==
  [s EXCEPT !.key_store = [k \in Keys |-> None], !.key_subscribers = [k \in Keys |-> {}]]

\* ------------------------------------------------ the application (user code)
\* P: a switcher on the global key (tests/test_session.py Switcher)
\* A: shows its local state and the path (tests/test_session.py Main, line 16)
\* B: shows its local state
render(s, c) ==
  CASE c = "P" ->
         [s |-> Context_get_state_str_subscribe(s, "P", KG),
          kids |-> IF State_get_key_str(s, KG) = "v2" THEN <<"A">> ELSE <<"A", "B">>]
    [] c = "A" ->
         [s |-> Context_get_state_str_subscribe(Context_get_state_str_subscribe(s, "A", KA), "A", KL),
          kids |-> <<>>]
    [] c = "B" ->
         [s |-> Context_get_state_str_subscribe(s, "B", KB),
          kids |-> <<>>]

\* the text of the element render returns: the values the component shows
render_text(s, c) ==
  CASE c = "P" -> <<>>
    [] c = "A" -> <<State_get_key_str(s, KA), State_get_key_str(s, KL)>>
    [] c = "B" -> <<State_get_key_str(s, KB)>>

LocalKey(c) == CASE c = "P" -> KG [] c = "A" -> KA [] c = "B" -> KB

\* ---------------------------------------------- rxxxt/component.py, node.py
\* one entry of the record of hooks: what ran, on which component
Log(s, h, c) == [s EXCEPT !.hooks = Append(@, [h |-> h, c |-> c])]

\* Component.add_worker: the task is created in a persistent session only
Component_add_worker(s, c) ==
  IF s.persistent THEN [s EXCEPT !.workers[c] = "running"] ELSE s

\* user code: A starts a worker when it is initialised (examples/dev.py Counter)
on_init(s, c) == IF c = "A" THEN Component_add_worker(s, c) ELSE s

Component_lc_init(s, c) == on_init(Log(s, "on_init", c), c)

\* user code inside render: self.context.request_update() and
\* self.context.use_websocket(False), for the components that call them
render_calls(s, c) ==
  IF c \in s.code.offws
  THEN Context_use_websocket(IF c \in s.code.selfreq THEN Context_request_update(s, c) ELSE s, FALSE)
  ELSE IF c \in s.code.selfreq THEN Context_request_update(s, c) ELSE s

\* render has returned: the render is counted, then on_after_update runs
Component_lc_render_done(r, c) ==
  [r EXCEPT !.s = Log(Log([render_calls(r.s, c)
                             EXCEPT !.render_count[c] = @ + 1, !.shown[c] = render_text(r.s, c)],
                          "render", c),
                      "on_after_update", c)]

\* faulty variant: on_after_update is not run
Component_lc_render_noafter(s, c) ==
  LET r == render(Log(s, "on_before_update", c), c)
  IN [r EXCEPT !.s = Log([r.s EXCEPT !.render_count[c] = @ + 1], "render", c)]

\* on_before_update, render, on_after_update; an exception of render leaves
\* lc_render
Component_lc_render(s, c) ==
  IF c \in s.code.faulty
  THEN [s |-> [Log(s, "on_before_update", c) EXCEPT !.raised = "RenderError"], kids |-> <<>>]
  ELSE Component_lc_render_done(render(Log(s, "on_before_update", c), c), c)

\* faulty variant: the workers are neither cancelled nor awaited
Component_lc_destroy_nocancel(s, c) ==
  Log(Log(s, "on_before_destroy", c), "on_after_destroy", c)

\* on_before_destroy; the jobs (_job_tasks, which nothing appends to) awaited;
\* the workers cancelled and awaited, the list cleared; on_after_destroy
Component_lc_destroy(s, c) ==
  LET s1 == Log(s, "on_before_destroy", c)
      s2 == IF s1.workers[c] # "none"
            THEN Log(Log([s1 EXCEPT !.workers[c] = "none"], "cancel", c), "stopped", c)
            ELSE s1
  IN Log(s2, "on_after_destroy", c)

RECURSIVE ComponentNode_destroy(_, _), Node_destroy_each(_, _)
Node_destroy_each(s, nodes) ==
  IF nodes = <<>> THEN s
  ELSE Node_destroy_each(ComponentNode_destroy(s, Head(nodes)), Tail(nodes))

\* faulty variant: the node's own hooks and unsubscription run before its children's
ComponentNode_destroy_self_first(s, c) ==
  LET s1 == Component_lc_destroy(s, c)
      s2 == Log(Context_unsubscribe_all(s1, c), "unsubscribe_all", c)
      s3 == Node_destroy_each(s2, s2.children[c])
  IN [s3 EXCEPT !.children[c] = <<>>, !.inner[c] = 0, !.node_state[c] = "destroyed"]

ComponentNode_destroy(s, c) ==
  LET s1 == Node_destroy_each(s, s.children[c])
      s2 == [s1 EXCEPT !.children[c] = <<>>, !.inner[c] = 0]
      s3 == Component_lc_destroy(s2, c)
      s4 == Log(Context_unsubscribe_all(s3, c), "unsubscribe_all", c)
  IN [s4 EXCEPT !.node_state[c] = "destroyed"]

\* Element.tonode of the rendered element: a new, unexpanded node for every
\* component in it
RECURSIVE tonode(_, _)
tonode(s, kids) ==
  IF kids = <<>> THEN s
  ELSE LET c == Head(kids)
       IN tonode(Log([s EXCEPT !.node_state[c] = "unexpanded", !.inner[c] = 0, !.children[c] = <<>>],
                     "create", c),
                 Tail(kids))

\* a raised exception ends the loop over the children
RECURSIVE ComponentNode_expand(_, _), ComponentNode_render_inner(_, _), Node_expand_each(_, _)
Node_expand_each(s, nodes) ==
  IF nodes = <<>> \/ s.raised # None THEN s
  ELSE Node_expand_each(ComponentNode_expand(s, Head(nodes)), Tail(nodes))

\* the rendered element becomes one more child of the node, and
\* self.children[0] is expanded: the components below it
ComponentNode_render_inner(s, c) ==
  LET r == Component_lc_render(s, c)
      s1 == tonode(r.s, r.kids)
      s2 == [s1 EXCEPT !.children[c] = @ \o r.kids, !.inner[c] = @ + 1]
  IN IF r.s.raised # None THEN r.s ELSE Node_expand_each(s2, r.kids)

\* faulty variant: an expanded node is initialised and rendered again
ComponentNode_expand_again(s, c) ==
  ComponentNode_render_inner(
    Component_lc_init([s EXCEPT !.node_state[c] = "expanded", !.children[c] = <<>>], c), c)

\* an expanded node raises ValueError; otherwise lc_init, then the first render
ComponentNode_expand(s, c) ==
  IF s.inner[c] > 0 THEN [s EXCEPT !.raised = "ValueError"]
  ELSE ComponentNode_render_inner(Component_lc_init([s EXCEPT !.node_state[c] = "expanded"], c), c)

\* faulty variant: the children are kept and the component is rendered over them
ComponentNode_update_keep(s, c) ==
  LET r == Component_lc_render(s, c)
      fresh == SelectSeq(r.kids, LAMBDA k : \A i \in 1..Len(s.children[c]) : s.children[c][i] # k)
      s1 == tonode(r.s, fresh)
      s2 == [s1 EXCEPT !.children[c] = r.kids, !.inner[c] = 1]
  IN Node_expand_each(s2, fresh)

ComponentNode_update(s, c) ==
  LET s1 == Node_destroy_each(s, s.children[c])
      s2 == [s1 EXCEPT !.children[c] = <<>>, !.inner[c] = 0]
  IN ComponentNode_render_inner(s2, c)

RECURSIVE Node_update_each(_, _)
Node_update_each(s, nodes) ==
  IF nodes = <<>> \/ s.raised # None THEN s
  ELSE Node_update_each(ComponentNode_update(s, Head(nodes)), Tail(nodes))

\* Node.update of the root LazyNode and its meta element recurses into the children
Node_update(s, n) ==
  IF n = "root" THEN Node_update_each(s, s.children["root"])
  ELSE ComponentNode_update(s, n)

\* LazyNode.expand: the producer runs once, then the children are expanded
LazyNode_expand(s) ==
  LET s1 == IF s.children["root"] = <<>>
            THEN [tonode(s, <<"P">>) EXCEPT !.children["root"] = <<"P">>]
            ELSE s
  IN Node_expand_each(s1, s1.children["root"])

\* Node.destroy of the root
Node_destroy(s) == Node_destroy_each(s, s.children["root"])

\* nodes of the tree below n, depth first, parents before children
RECURSIVE Preorder(_, _), PreorderEach(_, _)
PreorderEach(ch, nodes) ==
  IF nodes = <<>> THEN <<>>
  ELSE Preorder(ch, Head(nodes)) \o PreorderEach(ch, Tail(nodes))

Preorder(ch, n) == <<n>> \o PreorderEach(ch, ch[n])

SeqToSet(q) == {q[i] : i \in 1..Len(q)}

LiveNodes(ch) == SeqToSet(Preorder(ch, "root")) \ {"root"}

\* ------------------------------------------------------- event dispatch
InputEvent(c, handler_name, value) ==
  [context_id |-> get_context_stack_sid(c), handler_name |-> handler_name, value |-> value]

Events ==
  {InputEvent("P", "set", "v1"), InputEvent("P", "set", "v2"), InputEvent("A", "set", "v1"),
   InputEvent("A", "navigate", "v1"), InputEvent("B", "request_update", "v1")}

Batches == UNION {[1..n -> Events] : n \in 0..MaxBatch}

\* attributes of a component: the declared event handlers, and plain methods
EventHandlers == {"set", "navigate", "request_update"}
Methods == {"render", "add_job"}

\* getattr(self, handler_name, None), by the type of what it returns
getattr(c, handler_name) ==
  IF handler_name \in EventHandlers THEN "InstanceEventHandler"
  ELSE IF handler_name \in Methods THEN "method"
  ELSE None

\* pydantic's validate_call around the handler: the arguments fit the signature
validate_call(event) == event.value \in Values

\* the body of the handler
call_handler(s, c, event) ==
  CASE event.handler_name = "set" -> Context_set_state(s, LocalKey(c), event.value)
    [] event.handler_name = "navigate" -> Context_navigate(s, event.value)
    [] event.handler_name = "request_update" -> Context_request_update(s, c)
    [] OTHER -> s

\* InstanceEventHandler.__call__ behind validate_call: ValidationError, or the handler
InstanceEventHandler_call(s, c, event) ==
  IF validate_call(event)
  THEN call_handler([s EXCEPT !.handled[c] = @ + 1], c, event)
  ELSE [s EXCEPT !.raised = "ValidationError"]

\* faulty variant: the component is rendered again as soon as its handler returns
Component_lc_handle_event_rerender(s, c, event) ==
  ComponentNode_update(call_handler(s, c, event), c)

\* faulty variant: whatever getattr finds is called
Component_lc_handle_event_any(s, c, event) ==
  CASE getattr(c, event.handler_name) = "InstanceEventHandler" -> InstanceEventHandler_call(s, c, event)
    [] getattr(c, event.handler_name) = "method" -> Context_request_update([s EXCEPT !.handled[c] = @ + 1], c)
    [] OTHER -> [s EXCEPT !.raised = "ValueError"]

\* Component.lc_handle_event: the handler is looked up by name and called if it
\* is an InstanceEventHandler
Component_lc_handle_event(s, c, event) ==
  IF event.handler_name # None /\ getattr(c, event.handler_name) = "InstanceEventHandler"
  THEN InstanceEventHandler_call(s, c, event)
  ELSE s

\* ComponentNode.handle_events / Node.handle_event: the node itself, then its
\* children; an exception ends the dispatch
RECURSIVE Node_handle_event(_, _, _)
Node_handle_event(s, nodes, event) ==
  IF nodes = <<>> \/ s.raised # None THEN s
  ELSE LET n == Head(nodes)
           s1 == IF n # "root" /\ get_context_stack_sid(n) = event.context_id
                 THEN Component_lc_handle_event(s, n, event) ELSE s
       IN Node_handle_event(s1, Tail(nodes), event)

\* faulty variant: only the children of the root are reached
RECURSIVE Session_handle_events_shallow(_, _)
Session_handle_events_shallow(s, events) ==
  IF events = <<>> \/ s.raised # None THEN s
  ELSE Session_handle_events_shallow(
         Node_handle_event(s, <<"root">> \o s.children["root"], Head(events)), Tail(events))

RECURSIVE Session_handle_events(_, _)
Session_handle_events(s, events) ==
  IF events = <<>> \/ s.raised # None THEN s
  ELSE Session_handle_events(Node_handle_event(s, Preorder(s.children, "root"), Head(events)), Tail(events))

\* ------------------------------------------------- rxxxt/session.py Session
\* nel for el in els for nel in el.children
RECURSIVE ChildrenOfEach(_, _)
ChildrenOfEach(ch, els) ==
  IF els = <<>> THEN <<>>
  ELSE ch[Head(els)] \o ChildrenOfEach(ch, Tail(els))

\* faulty variant: a yielded node is searched on the next level as well
RECURSIVE FindRootsLevel_descend(_, _, _)
FindRootsLevel_descend(ch, els, ids) ==
  IF els = <<>> THEN <<>>
  ELSE LET level == ChildrenOfEach(ch, els)
       IN SelectSeq(level, LAMBDA n : n \in ids) \o FindRootsLevel_descend(ch, level, ids)

\* one level of the loop of _find_roots: a child whose id is in ids is yielded,
\* the others are searched on the next level.  A yielded node is updated
\* before the generator resumes, which changes only the subtree of that node,
\* and the generator never descends into it.
RECURSIVE FindRootsLevel(_, _, _)
FindRootsLevel(ch, els, ids) ==
  IF els = <<>> THEN <<>>
  ELSE LET level == ChildrenOfEach(ch, els)
       IN SelectSeq(level, LAMBDA n : n \in ids)
            \o FindRootsLevel(ch, SelectSeq(level, LAMBDA n : n \notin ids), ids)

\* faulty variant: every node whose id is in ids is yielded
Session_find_roots_all(ch, ids) ==
  SelectSeq(Preorder(ch, "root"), LAMBDA n : n \in ids)

Session_find_roots(ch, ids) ==
  IF "root" \in ids THEN <<"root">>
  ELSE FindRootsLevel(ch, <<"root">>, ids)

RECURSIVE Session_update_roots(_, _)
Session_update_roots(s, roots) ==
  IF roots = <<>> \/ s.raised # None THEN s
  ELSE LET node == Head(roots)
           s1 == [s EXCEPT !.pending_renders = @ \cup {node}]
       IN Session_update_roots(Node_update(s1, node), Tail(roots))

\* ------------------------------------------------------------ the inputs
\* durable maps a session may be started from (Session.init)
InitTokens ==
  {NoToken, Token([k \in Keys |-> IF k = KG THEN "v2" ELSE IF k = KB THEN "v1" ELSE None])}

\* reads made by component code outside render: B reads the location
Reads == {<<"B", KL>>}
Unsubscribes == {<<"A", KA>>, <<"A", KL>>}
NavLocations == {"v1"}

\* faulty variant: every token resolves to the empty dict
resolve_empty(token) == <<>>

\* StateResolver.resolve: the dict of the keys the token holds
resolve(token) ==
  LET held == {k \in Keys : token.data[k] # None}
  IN [k \in held |-> token.data[k]]

\* dicts written in one call of update_state_strs: one key, or both local keys
WriteData ==
  UNION {{d \in [ks -> Values] : \A k \in ks : d[k] \in ValuesOf(k)} :
           ks \in {{k} : k \in Keys} \cup {{KA, KB}}}

\* --------------------------------------------------------------- actions
\* history of an update or a render_update does not outlive the next call
History(p, pm, tok, bm) ==
  popped' = p /\ popped_multi' = pm /\ minted_token' = tok /\ batch_multi' = bm

\* what the last batch asked for
BatchHistory(events) ==
  /\ addressed' = [c \in Comps |->
        Cardinality({i \in 1..Len(events) :
          events[i].context_id = get_context_stack_sid(c) /\ events[i].handler_name \in EventHandlers})]
  /\ stale' = Cardinality({i \in 1..Len(events) : events[i].handler_name \notin EventHandlers})
  /\ invalid' = Cardinality({i \in 1..Len(events) :
                   events[i].handler_name \in EventHandlers /\ ~validate_call(events[i])})
  /\ UNCHANGED side

\* a call of the session leaves the transport as it is
Dispatched(events) == BatchHistory(events) /\ UNCHANGED <<ws, response>>

NoDispatch ==
  addressed' = NoRenders /\ stale' = 0 /\ invalid' = 0 /\ UNCHANGED <<ws, response>> /\ UNCHANGED side

NoHistory == History({}, {}, NoToken, {}) /\ NoDispatch

\* a step beside the session leaves the session and the transport alone
SessionFrame ==
  UNCHANGED <<key_store, key_subscribers, pending_updates, output_events, update_event,
              children, pending_renders, minted_token, phase, render_count, popped,
              batch_multi, popped_multi, inner, workers, persistent, node_state, hooks,
              handled, addressed, stale, invalid, ws, response, raised>>

TokenFrame == SessionFrame /\ UNCHANGED <<kept, returned, lst, comp, cyc, code, view, rest>>

\* nothing has happened beside the session
SideInit ==
  /\ jwt = NoJwt
  /\ now = 0
  /\ resolved = NoResult
  /\ kept = [token |-> NoToken, store |-> [k \in Keys |-> None]]
  /\ returned = <<>>
  /\ lst = [nodes |-> <<>>, read |-> <<>>]
  /\ comp = [tasks |-> <<>>, closed |-> {}, pc |-> "alive"]
  /\ code = [faulty |-> {}, selfreq |-> {}, offws |-> {}]
  /\ router = [routes |-> <<>>, location |-> <<>>, element |-> [route |-> 0], fresh |-> FALSE]
  /\ waiter = [pc |-> "idle", again |-> FALSE]
  /\ stacks = [a |-> <<>>, b |-> <<>>]
  /\ sent = [events |-> <<>>, closing |-> FALSE, off |-> FALSE, state_token |-> NoToken,
             from |-> NoToken, last_state_token |-> NoToken, enable |-> FALSE, rounds |-> 0]
  /\ view = [shown |-> [c \in Comps |-> <<>>], parts |-> <<>>, updated |-> {}]
  /\ cyc = [pending |-> {}, tree |-> [n \in {"A", "B"} |-> "expanded"], actor |-> 0,
            calls |-> [k \in {1, 2} |-> [pc |-> "idle", node |-> "-", todo |-> {}, behind |-> {}]]]

\* a session as constructed, persistent or not, for an application whose
\* components use the given keys
InitOver(keys, p) ==
  /\ key_store = [k \in keys |-> None]
  /\ key_subscribers = [k \in keys |-> {}]
  /\ pending_updates = {}
  /\ output_events = <<>>
  /\ update_event = FALSE
  /\ children = NoChildren
  /\ pending_renders = {}
  /\ minted_token = NoToken
  /\ phase = "new"
  /\ render_count = NoRenders
  /\ popped = {}
  /\ batch_multi = {}
  /\ popped_multi = {}
  /\ last = Op("new", "-", {})
  /\ inner = [c \in Comps |-> 0]
  /\ workers = [c \in Comps |-> "none"]
  /\ persistent = p
  /\ node_state = [c \in Comps |-> "absent"]
  /\ hooks = <<>>
  /\ handled = NoRenders
  /\ addressed = NoRenders
  /\ stale = 0
  /\ invalid = 0
  /\ ws = "none"
  /\ response = NoResponse
  /\ raised = None
  /\ SideInit

InitWith(p) == InitOver(Keys, p)

\* the session of the tests: SessionConfig(persistent=False)
Init == InitWith(FALSE)

\* Session.set_location
SetLocation(location) ==
  /\ phase \in {"new", "live"}
  /\ Commit(NewState_set_many(Cur, (KL :> location)))
  /\ last' = Op("set_location", "-", {KL})
  /\ UNCHANGED phase /\ NoHistory

\* Session.init
DoInit(state_token) ==
  /\ LET s1 == IF state_token # NoToken THEN NewState_set_many(Cur, resolve(state_token)) ELSE Cur
     IN Commit(LazyNode_expand(s1))
  /\ phase' = "live"
  /\ last' = Op("init", "-", {})
  /\ NoHistory

SessionInit(state_token) == phase = "new" /\ DoInit(state_token)

\* Session.handle_events; the dispatch history is kept when record is set
DoHandleEvents(events, record) ==
  /\ LET s1 == Session_handle_events(Cur, events)
     IN /\ Len(s1.output_events) <= MaxOutputEvents
        /\ History({}, {}, NoToken, s1.multi)
        /\ IF record THEN Commit(s1) /\ Dispatched(events)
           ELSE Commit([s1 EXCEPT !.handled = NoRenders]) /\ NoDispatch
  /\ last' = Op("handle_events", "-", {})
  /\ UNCHANGED phase

HandleEvents(events) == phase = "live" /\ DoHandleEvents(events, FALSE)

\* Session.update
DoUpdate(optional) ==
  /\ IF optional /\ ~update_event
     THEN /\ Commit(Cur)
          /\ last' = Op("update_skipped", "-", {})
          /\ NoHistory
     ELSE /\ LET ids == pending_updates
                 s1 == State_pop_updates(Cur)
                 s2 == Session_update_roots(s1, Session_find_roots(s1.children, ids))
             IN IF s2.raised # None THEN Commit(s2)
                ELSE \E s3 \in NewState_cleanup(s2, {"#"}) : Commit(State_set_update_event(s3))
          /\ History(pending_updates, batch_multi, NoToken, {})
          /\ NoDispatch
          /\ last' = Op("update", last.op, {})
  /\ UNCHANGED phase

SessionUpdate(optional) == phase = "live" /\ DoUpdate(optional)

\* Session.render_update; _update_state_token when the token is included
RenderUpdate(include_state_token, render_full) ==
  /\ phase = "live"
  /\ \E s1 \in (IF include_state_token THEN NewState_cleanup(Cur, {"#"}) ELSE {Cur}) :
       /\ History({}, {}, IF include_state_token THEN Token(NewState_get_key_values(s1, {"!", "#"})) ELSE NoToken, {})
       /\ NoDispatch
       /\ Commit(State_pop_output_events([s1 EXCEPT !.pending_renders = {}]))
  /\ last' = Op(IF include_state_token THEN "render_update_token" ELSE "render_update", "-", {})
  /\ UNCHANGED phase

\* Session.destroy
DoDestroy ==
  /\ Commit(NewState_destroy(Node_destroy(Cur)))
  /\ phase' = "destroyed"
  /\ last' = Op("destroy", "-", {})
  /\ NoHistory

SessionDestroy == phase = "live" /\ DoDestroy

\* component code of a live node reading a key (location, header, cookies, state)
CtxRead(c, key) ==
  /\ phase = "live" /\ c \in LiveNodes(children)
  /\ <<c, key>> \in Reads
  /\ Commit(Context_get_state_str_subscribe(Cur, c, key))
  /\ last' = Op("read", c, {key})
  /\ UNCHANGED phase /\ NoHistory

\* Context.unsubscribe
CtxUnsubscribe(c, key) ==
  /\ phase = "live" /\ c \in LiveNodes(children)
  /\ <<c, key>> \in Unsubscribes
  /\ c \in key_subscribers[key]
  /\ Commit(State_unsubscribe(Cur, c, key))
  /\ last' = Op("unsubscribe", c, {key})
  /\ UNCHANGED phase /\ NoHistory

\* State.update_state_strs called outside an event (a job, a test)
CtxWrite(data) ==
  /\ phase = "live"
  /\ Commit(State_update_state_strs(Cur, data))
  /\ last' = Op("update_state_strs",
                 IF \E k \in DOMAIN data : data[k] # key_store[k] THEN "changed" ELSE "same",
                 DOMAIN data)
  /\ UNCHANGED phase /\ NoHistory

\* Context.navigate called outside an event
CtxNavigate(location) ==
  /\ phase = "live"
  /\ Len(output_events) < MaxOutputEvents
  /\ Commit(Context_navigate(Cur, location))
  /\ last' = Op("navigate", "-", {KL})
  /\ UNCHANGED phase /\ NoHistory

\* Context.request_update called outside an event
CtxRequestUpdate(c) ==
  /\ phase = "live" /\ c \in LiveNodes(children)
  /\ Commit(Context_request_update(Cur, c))
  /\ last' = Op("request_update", "-", {})
  /\ UNCHANGED phase /\ NoHistory

\* State.cleanup of rxxxt/execution.py
StoreCleanup ==
  /\ phase = "live"
  /\ Commit(State_cleanup(Cur))
  /\ last' = Op("cleanup", "-", {})
  /\ UNCHANGED phase /\ NoHistory

\* the session driven by its transport: events, updates, renders
Next ==
  \/ \E location \in ValuesOf(KL) : SetLocation(location)
  \/ \E state_token \in InitTokens : SessionInit(state_token)
  \/ \E events \in Batches : HandleEvents(events)
  \/ \E optional \in BOOLEAN : SessionUpdate(optional)
  \/ \E include_state_token \in BOOLEAN, render_full \in BOOLEAN : RenderUpdate(include_state_token, render_full)
  \/ SessionDestroy

Spec == Init /\ [][Next]_vars

\* the store driven by component code, drained by the session
NextStore ==
  \/ \E state_token \in InitTokens : SessionInit(state_token)
  \/ \E optional \in BOOLEAN : SessionUpdate(optional)
  \/ \E include_state_token \in BOOLEAN, render_full \in BOOLEAN : RenderUpdate(include_state_token, render_full)
  \/ SessionDestroy
  \/ \E c \in Comps, key \in Keys : CtxRead(c, key)
  \/ \E c \in Comps, key \in Keys : CtxUnsubscribe(c, key)
  \/ \E data \in WriteData : CtxWrite(data)
  \/ \E location \in NavLocations : CtxNavigate(location)
  \/ \E c \in Comps : CtxRequestUpdate(c)
  \/ StoreCleanup

SpecStore == Init /\ [][NextStore]_vars

\* ------------------------------------------------ the lifecycle of the nodes
\* events of the application, and events that name no handler of the
\* addressed component: a method that is no handler, and an unknown name
LifeEvents ==
  {InputEvent("P", "set", "v1"), InputEvent("P", "set", "v2"), InputEvent("A", "request_update", "v1"),
   InputEvent("A", "render", "v1"), InputEvent("P", "unknown", "v1")}

LifeBatches == UNION {[1..n -> LifeEvents] : n \in 0..MaxBatch}

InitLife == \E p \in BOOLEAN : InitWith(p)

\* the calls of a Session, which checks the order of none of them
ApiInit == DoInit(NoToken)
ApiHandleEvents(events) == DoHandleEvents(events, TRUE)
ApiUpdate == DoUpdate(FALSE)
ApiDestroy == DoDestroy

\* a step of the worker task of a component: it asks for an update
WorkerStep(c) ==
  /\ workers[c] = "running"
  /\ Commit(Context_request_update(Cur, c))
  /\ last' = Op("worker_step", c, {})
  /\ UNCHANGED phase /\ NoHistory

NextLife ==
  \/ ApiInit
  \/ \E events \in LifeBatches : ApiHandleEvents(events)
  \/ ApiUpdate
  \/ ApiDestroy
  \/ \E c \in Comps : WorkerStep(c)

SpecLife == InitLife /\ [][NextLife]_vars

\* ------------------------------------------------ rxxxt/app.py  class App
\* events a client sends: handled, stale, and one whose argument does not fit
\* the handler
AppEvents ==
  {InputEvent("P", "set", "v1"), InputEvent("P", "set", "v2"), InputEvent("A", "request_update", "v1"),
   InputEvent("A", "render", "v1"), InputEvent("P", "set", "bad")}

AppBatches == UNION {[1..n -> AppEvents] : n \in 0..MaxBatch}

\* the store of a new executor
Fresh(p) ==
  [key_store |-> [k \in Keys |-> None], key_subscribers |-> [k \in Keys |-> {}],
   pending_updates |-> {}, output_events |-> <<>>, update_event |-> FALSE,
   children |-> NoChildren, pending_renders |-> {}, render_count |-> NoRenders, multi |-> {},
   inner |-> [c \in Comps |-> 0], workers |-> [c \in Comps |-> "none"], persistent |-> p,
   node_state |-> [c \in Comps |-> "absent"], hooks |-> <<>>, handled |-> NoRenders,
   raised |-> None, code |-> code, shown |-> view.shown]

\* State.init: the store is filled, nobody is notified
State_init(s, k_str_store) ==
  [s EXCEPT !.key_store = [k \in Keys |-> IF k \in DOMAIN k_str_store THEN k_str_store[k] ELSE @[k]]]

\* AppExecutor(state, headers)
AppExecutor(p, state) == State_init(Fresh(p), state)

\* the end of AppExecutor.execute_root: unless a handler raised, the pending
\* contexts are rendered again and the store is cleaned up
AppExecutor_update(s) ==
  IF s.raised # None THEN s
  ELSE State_cleanup(Session_update_roots(State_pop_updates(s),
                                          Session_find_roots(s.children, s.pending_updates)))

\* AppExecutor.execute_root: the root element is expanded by the first
\* execution; the events are dispatched, then the pending contexts are
\* rendered again.  An exception of a handler leaves the call.
AppExecutor_execute_root(s, events) ==
  AppExecutor_update(
    Session_handle_events(IF s.children["root"] = <<>> THEN LazyNode_expand(s) ELSE s, events))

\* the second execution of an exchange: events that left no output event
\* are followed by an execution without events
App_execute_again(s, events) ==
  IF s.raised = None /\ Len(events) > 0 /\ Len(s.output_events) = 0
  THEN AppExecutor_execute_root(s, <<>>)
  ELSE s

\* the executions of one exchange
App_execute(s, events) == App_execute_again(AppExecutor_execute_root(s, events), events)

\* faulty variant: every exception is an internal error
App_call_http_status_500(exc) ==
  IF exc = None THEN "200" ELSE "500"

\* App.__call__, scope "http": the status the exchange ends with
App_call_http_status(exc) ==
  CASE exc = None -> "200"
    [] exc \in {"ValidationError", "ValueError"} -> "400"
    [] OTHER -> "500"

\* App._handle_http, method GET: no token, no events
HttpGet ==
  /\ ~persistent /\ ws = "none"
  /\ LET s1 == App_execute(AppExecutor(FALSE, resolve(NoToken)), <<>>)
         status == App_call_http_status(s1.raised)
     IN /\ Commit(s1)
        /\ response' = IF status = "200" THEN Response("200", TRUE, Token(State_user_data(s1)))
                       ELSE Response(status, FALSE, NoToken)
  /\ BatchHistory(<<>>) /\ History({}, {}, NoToken, {})
  /\ last' = Op("http_get", "-", {})
  /\ UNCHANGED <<phase, ws>>

\* App._handle_http, method POST: the token of the last response or none,
\* and a batch of events; App.__call__ turns an exception into a status
HttpPost(old_state_token, events) ==
  /\ ~persistent /\ ws = "none"
  /\ old_state_token \in {NoToken, response.token}
  /\ LET s1 == App_execute(AppExecutor(FALSE, resolve(old_state_token)), events)
         status == App_call_http_status(s1.raised)
     IN /\ Commit(s1)
        /\ response' = IF status = "200" THEN Response("200", TRUE, Token(State_user_data(s1)))
                       ELSE Response(status, FALSE, NoToken)
  /\ BatchHistory(events) /\ History({}, {}, NoToken, {})
  /\ last' = Op("http_post", "-", {})
  /\ UNCHANGED <<phase, ws>>

\* App._handle_websocket up to the loop: accept, init message, executor
WsConnect ==
  /\ persistent /\ ws = "none"
  /\ Commit(AppExecutor(TRUE, resolve(NoToken)))
  /\ ws' = "open"
  /\ response' = NoResponse
  /\ BatchHistory(<<>>) /\ History({}, {}, NoToken, {})
  /\ last' = Op("ws_connect", "-", {})
  /\ UNCHANGED phase

\* one round of the loop of App._handle_websocket: an update message is
\* executed and answered; App.__call__ closes the connection with code 1011
\* on any exception
WsUpdate(events) ==
  /\ ws = "open"
  /\ LET s1 == App_execute(Cur, events)
     IN /\ Commit(s1)
        /\ ws' = IF s1.raised # None THEN "closed" ELSE "open"
        /\ response' = IF s1.raised # None THEN Response("1011", FALSE, NoToken)
                       ELSE Response("message", TRUE, NoToken)
  /\ BatchHistory(events) /\ History({}, {}, NoToken, {})
  /\ last' = Op("ws_update", "-", {})
  /\ UNCHANGED phase

\* the client disconnects: the loop returns
WsDisconnect ==
  /\ ws = "open"
  /\ Commit(Cur)
  /\ ws' = "closed"
  /\ response' = NoResponse
  /\ BatchHistory(<<>>) /\ History({}, {}, NoToken, {})
  /\ last' = Op("ws_disconnect", "-", {})
  /\ UNCHANGED phase

NextApp ==
  \/ HttpGet
  \/ \E old_state_token \in {NoToken, response.token}, events \in AppBatches : HttpPost(old_state_token, events)
  \/ WsConnect
  \/ \E events \in AppBatches : WsUpdate(events)
  \/ WsDisconnect

SpecApp == InitLife /\ [][NextApp]_vars

\* ------------------------------------------------ output events of a pass
MaxEmitted == 3        \* output events emitted before they are returned

\* the locations of tests/test_session.py, test_event_deduplication
Locations == {"/hello-world", "/world-hello"}

\* Context.navigate called by a render or a handler
EvNavigate(location) ==
  /\ Len(output_events) < MaxEmitted
  /\ Commit(Context_navigate(Cur, location))
  /\ last' = Op("navigate", "-", {KL})
  /\ UNCHANGED phase /\ NoHistory

\* Session.render_update: events = pop_output_events()
EvRenderUpdate ==
  /\ returned' = output_events
  /\ Commit(State_pop_output_events([Cur EXCEPT !.pending_renders = {}]))
  /\ last' = Op("render_update", "-", {})
  /\ History({}, {}, NoToken, {})
  /\ addressed' = NoRenders /\ stale' = 0 /\ invalid' = 0
  /\ UNCHANGED <<phase, ws, response, jwt, now, resolved, kept, lst, comp, cyc, code, view, rest>>

NextEvents ==
  \/ \E location \in Locations : EvNavigate(location)
  \/ EvRenderUpdate

SpecEvents == Init /\ [][NextEvents]_vars

\* ------------------------------------ rxxxt/elements.py  lists of keyed items
\* a component renders a div whose content is a list of item components,
\* each wrapped in KeyedElement(key, item); an item shows its local state
ListItems == {"a", "b", "c"}

\* the lists a render returns: every order of every choice of items
ListContents ==
  {q \in UNION {[1..n -> ListItems] : n \in 0..Cardinality(ListItems)} :
     \A i, j \in DOMAIN q : i # j => q[i] # q[j]}

IntText(i) == CASE i = 0 -> "0" [] i = 1 -> "1" [] OTHER -> "2"

\* the context of the div that holds the list
ListParent == StackOf("P") \o <<Seg(FALSE, "inner"), Seg(TRUE, "0")>>

Context_sub(stack, key) == Append(stack, key)

Context_replace_index(stack, key) ==
  IF stack[Len(stack)].isint
  THEN Return(SubSeq(stack, 1, Len(stack) - 1) \o <<Seg(FALSE, key)>>)
  ELSE Raise("ValueError")

\* faulty variant: the key is not used, the item keeps the index of its place
KeyedElement_tonode_index(context, key) == context

\* KeyedElement.tonode: the context the wrapped element gets
KeyedElement_tonode(context, key) ==
  IF Context_replace_index(context, key).exc = None
  THEN Context_replace_index(context, key).val
  ELSE context

\* element_content_to_nodes over a list of keyed items: the component node
\* of every item, with the item it renders
element_content_to_nodes(context, content) ==
  [idx \in DOMAIN content |->
     [stack |-> KeyedElement_tonode(Context_sub(context, Seg(TRUE, IntText(idx - 1))), content[idx]),
      item |-> content[idx]]]

\* StateDescriptor._get_state_name of a local state: "#local;<sid>;<name>"
StateDescriptor_get_state_name(stack) == <<"#">> \o sid_of(stack)

\* the local-state keys of every context an item can get
ListKeys ==
  {StateDescriptor_get_state_name(Context_sub(ListParent, seg)) :
     seg \in {Seg(FALSE, k) : k \in ListItems} \cup {Seg(TRUE, IntText(i)) : i \in 0..2}}

\* ComponentNode.destroy of every item node: lc_destroy, unsubscribe_all
RECURSIVE ItemNodes_destroy(_, _)
ItemNodes_destroy(s, nodes) ==
  IF nodes = <<>> THEN s
  ELSE ItemNodes_destroy(Context_unsubscribe_all(s, Head(nodes).stack), Tail(nodes))

\* ComponentNode.expand of every item node: the render reads the local state
RECURSIVE ItemNodes_expand(_, _)
ItemNodes_expand(s, nodes) ==
  IF nodes = <<>> THEN s
  ELSE ItemNodes_expand(
         Context_get_state_str_subscribe(s, Head(nodes).stack,
                                         StateDescriptor_get_state_name(Head(nodes).stack)),
         Tail(nodes))

\* ComponentNode.update of the component that renders the list
ListNode_update(s, nodes, content) ==
  [s |-> ItemNodes_expand(ItemNodes_destroy(s, nodes), element_content_to_nodes(ListParent, content)),
   nodes |-> element_content_to_nodes(ListParent, content)]

InitList == InitOver(ListKeys, FALSE)

QuietFrame ==
  /\ History({}, {}, NoToken, {})
  /\ addressed' = NoRenders /\ stale' = 0 /\ invalid' = 0
  /\ UNCHANGED <<phase, ws, response, jwt, now, resolved, kept, returned, comp, cyc, code, view, rest>>

\* the local state every item node reads when it renders
ItemReads(s, nodes) ==
  [i \in DOMAIN nodes |-> s.key_store[StateDescriptor_get_state_name(nodes[i].stack)]]

\* how the list of an update differs from the list rendered before
ListChange(nodes, content) ==
  LET before == {nodes[i].item : i \in DOMAIN nodes}
      after == {content[i] : i \in DOMAIN content}
  IN CASE [i \in DOMAIN nodes |-> nodes[i].item] = content -> "same"
       [] before = after -> "reorder"
       [] after \subseteq before /\ Cardinality(before \ after) = 1 -> "removal"
       [] OTHER -> "other"

\* Session.update after the list changed: the component is rendered again
\* with the new list, then the store is cleaned up
ListUpdate(content) ==
  /\ LET r == ListNode_update(State_pop_updates(Cur), lst.nodes, content)
     IN /\ \E s3 \in NewState_cleanup(r.s, {"#"}) : Commit(State_set_update_event(s3))
        /\ lst' = [nodes |-> r.nodes, read |-> ItemReads(r.s, r.nodes)]
  /\ last' = Op("list_update", ListChange(lst.nodes, content), {})
  /\ QuietFrame

\* the nodes of a list whose context is pending
RECURSIVE PendingNodes(_, _)
PendingNodes(nodes, ids) ==
  IF nodes = <<>> THEN <<>>
  ELSE (IF Head(nodes).stack \in ids THEN <<Head(nodes)>> ELSE <<>>) \o PendingNodes(Tail(nodes), ids)

\* one exchange: the event handler of an item writes the local state of the
\* item (Session.handle_events), then the pending item nodes are rendered
\* again and the store is cleaned up (Session.update)
ListEvent(i, value) ==
  /\ i \in DOMAIN lst.nodes
  /\ LET s1 == Context_set_state(Cur, StateDescriptor_get_state_name(lst.nodes[i].stack), value)
         s2 == ItemNodes_expand(State_pop_updates(s1), PendingNodes(lst.nodes, s1.pending_updates))
     IN /\ \E s3 \in NewState_cleanup(s2, {"#"}) : Commit(State_set_update_event(s3))
        /\ lst' = [nodes |-> lst.nodes, read |-> ItemReads(s2, lst.nodes)]
  /\ last' = Op("list_event", "-", {})
  /\ QuietFrame

NextList ==
  \/ \E content \in ListContents : ListUpdate(content)
  \/ \E i \in 1..Cardinality(ListItems), value \in Values : ListEvent(i, value)

SpecList == InitList /\ [][NextList]_vars

\* ------------------------------- rxxxt/component.py  jobs and workers, by step
MaxTasks == 2          \* coroutines one component hands to add_job and add_worker

\* the coroutines of user code: one that returns after a step, a loop that
\* ends when it is cancelled, a loop that catches CancelledError and goes on
Coroutines == {"finite", "loop", "stubborn"}

\* asyncio.create_task(a): origin is the method that was called, list the
\* attribute the task was appended to
create_task(a, origin, list) ==
  [coro |-> a, origin |-> origin, list |-> list, status |-> "pending", ran |-> FALSE,
   beat |-> 0, listed |-> TRUE]

\* Component.add_job: the task is appended to _worker_tasks
Tasks_add_job(cp, p, a) ==
  IF p THEN [cp EXCEPT !.tasks = Append(@, create_task(a, "job", "worker"))]
  ELSE [cp EXCEPT !.closed = @ \cup {"job"}]

\* faulty variant: the task is created whatever the session is
Tasks_add_worker_always(cp, p, a) ==
  [cp EXCEPT !.tasks = Append(@, create_task(a, "worker", "worker"))]

\* Component.add_worker
Tasks_add_worker(cp, p, a) ==
  IF p THEN [cp EXCEPT !.tasks = Append(@, create_task(a, "worker", "worker"))]
  ELSE [cp EXCEPT !.closed = @ \cup {"worker"}]

\* the tasks of _job_tasks or of _worker_tasks
Listed(cp, list) == {i \in DOMAIN cp.tasks : cp.tasks[i].listed /\ cp.tasks[i].list = list}

Task_done(task) == task.status \in {"done", "cancelled"}

\* Task.cancel: a finished task is left alone
Task_cancel(task) == IF Task_done(task) THEN task ELSE [task EXCEPT !.status = "cancel_requested"]

\* one step of a task on the event loop.  A cancellation requested before
\* the first step ends the task; later it is thrown into the coroutine,
\* which ends unless it catches it
Task_step(task) ==
  CASE task.status = "cancel_requested" /\ (~task.ran \/ task.coro # "stubborn") ->
         [task EXCEPT !.status = "cancelled"]
    [] task.status = "cancel_requested" ->
         [task EXCEPT !.status = "pending", !.beat = 1 - @]
    [] task.status = "pending" /\ task.coro = "finite" ->
         [task EXCEPT !.status = "done", !.ran = TRUE]
    [] OTHER -> [task EXCEPT !.ran = TRUE, !.beat = 1 - @]

\* list.clear()
Tasks_clear(cp, list) ==
  [cp EXCEPT !.tasks = [i \in DOMAIN @ |-> IF i \in Listed(cp, list)
                                           THEN [@[i] EXCEPT !.listed = FALSE] ELSE @[i]]]

\* the end of lc_destroy and of ComponentNode.destroy: on_after_destroy,
\* then context.unsubscribe_all()
Tasks_lc_destroy_after(cp) == [cp EXCEPT !.pc = "destroyed"]

\* lc_destroy from the workers on: they are cancelled, then awaited with
\* asyncio.wait, which has no timeout
Tasks_lc_destroy_workers(cp) ==
  IF Listed(cp, "worker") # {}
  THEN [cp EXCEPT !.tasks = [i \in DOMAIN @ |-> IF i \in Listed(cp, "worker")
                                                THEN Task_cancel(@[i]) ELSE @[i]],
                  !.pc = "wait_workers"]
  ELSE Tasks_lc_destroy_after(cp)

\* lc_destroy up to its first wait: on_before_destroy, then the jobs are
\* awaited if there are any
Tasks_lc_destroy(cp) ==
  IF Listed(cp, "job") # {} THEN [cp EXCEPT !.pc = "wait_jobs"]
  ELSE Tasks_lc_destroy_workers(cp)

\* lc_destroy after asyncio.wait returned
Tasks_lc_destroy_resume(cp) ==
  IF cp.pc = "wait_jobs" THEN Tasks_lc_destroy_workers(Tasks_clear(cp, "job"))
  ELSE Tasks_lc_destroy_after(Tasks_clear(cp, "worker"))

\* a hook or a handler of the component calls add_job
TaskAddJob(a) ==
  /\ comp.pc = "alive" /\ Len(comp.tasks) + Cardinality(comp.closed) < MaxTasks
  /\ comp' = Tasks_add_job(comp, persistent, a)
  /\ last' = Op("add_job", "-", {})
  /\ SessionFrame /\ UNCHANGED <<jwt, now, resolved, kept, returned, lst, cyc, code, view, rest>>

\* a hook or a handler of the component calls add_worker
TaskAddWorker(a) ==
  /\ comp.pc = "alive" /\ Len(comp.tasks) + Cardinality(comp.closed) < MaxTasks
  /\ comp' = Tasks_add_worker(comp, persistent, a)
  /\ last' = Op("add_worker", "-", {})
  /\ SessionFrame /\ UNCHANGED <<jwt, now, resolved, kept, returned, lst, cyc, code, view, rest>>

\* the event loop runs a task that has not finished
TaskStep(i) ==
  /\ i \in DOMAIN comp.tasks /\ ~Task_done(comp.tasks[i])
  /\ comp' = [comp EXCEPT !.tasks[i] = Task_step(@)]
  /\ last' = Op("task_step", "-", {})
  /\ SessionFrame /\ UNCHANGED <<jwt, now, resolved, kept, returned, lst, cyc, code, view, rest>>

\* ComponentNode.destroy reaches lc_destroy
TaskDestroy ==
  /\ comp.pc = "alive"
  /\ comp' = Tasks_lc_destroy(comp)
  /\ last' = Op("lc_destroy", "-", {})
  /\ SessionFrame /\ UNCHANGED <<jwt, now, resolved, kept, returned, lst, cyc, code, view, rest>>

\* asyncio.wait returns when every task it was given has finished
TaskWaitReturns ==
  /\ comp.pc \in {"wait_jobs", "wait_workers"}
  /\ \A i \in Listed(comp, IF comp.pc = "wait_jobs" THEN "job" ELSE "worker") : Task_done(comp.tasks[i])
  /\ comp' = Tasks_lc_destroy_resume(comp)
  /\ last' = Op("wait_returns", "-", {})
  /\ SessionFrame /\ UNCHANGED <<jwt, now, resolved, kept, returned, lst, cyc, code, view, rest>>

NextTasks ==
  \/ \E a \in Coroutines : TaskAddJob(a)
  \/ \E a \in Coroutines : TaskAddWorker(a)
  \/ \E i \in 1..MaxTasks : TaskStep(i)
  \/ TaskDestroy
  \/ TaskWaitReturns

SpecTasks == InitLife /\ [][NextTasks]_vars

\* the event loop runs every task that can run, and resumes a wait that can
\* return
SpecTasksFair ==
  /\ SpecTasks
  /\ WF_vars(TaskWaitReturns)
  /\ \A i \in 1..MaxTasks : WF_vars(TaskStep(i))

\* ------------------------------ rxxxt/session.py  Session.update, by await point
Calls == {1, 2}            \* the callers of Session.update
CycleNodes == {"A", "B"}   \* two component nodes, neither below the other

\* the next root of the for loop of Session.update
Cycle_next_root(todo) == IF "A" \in todo THEN "A" ELSE "B"

\* Session.update from one root of the loop on, up to its next await that
\* suspends: the node is added to _pending_renders and ComponentNode.update
\* awaits the destroy of its children; after the last root, state.cleanup
\* and execution.reset_event, and the call returns
Session_update_loop(c, k, todo) ==
  IF todo = {}
  THEN [c EXCEPT !.calls = [j \in Calls |->
                              IF j = k THEN [pc |-> "idle", node |-> "-", todo |-> {}, behind |-> {}]
                              ELSE [@[j] EXCEPT !.behind = @ \ {k}]]]
  ELSE [c EXCEPT !.calls[k].pc = "destroy", !.calls[k].node = Cycle_next_root(todo),
                 !.calls[k].todo = todo \ {Cycle_next_root(todo)}]

\* Session.update up to its first await that suspends.  No lock is taken and
\* no call in flight is looked at
Session_update_begin(c, k, optional) ==
  IF optional /\ c.pending = {} THEN c
  ELSE Session_update_loop(
         [c EXCEPT !.pending = {},
                   !.calls[k].behind = {j \in Calls \ {k} : c.calls[j].pc # "idle"}],
         k, c.pending)

\* ComponentNode.update after the children were destroyed: children.clear(),
\* then _render_inner awaits lc_render
ComponentNode_update_destroyed(c, k) ==
  [c EXCEPT !.tree[c.calls[k].node] = "cleared", !.calls[k].pc = "render", !.actor = k]

\* ComponentNode.update after lc_render returned: the new children are
\* expanded, and Session.update goes on with its loop
ComponentNode_update_rendered(c, k) ==
  Session_update_loop([c EXCEPT !.tree[c.calls[k].node] = "expanded", !.actor = k],
                      k, c.calls[k].todo)

CycleFrame ==
  SessionFrame /\ UNCHANGED <<jwt, now, resolved, kept, returned, lst, comp, code, view, rest>>

\* a caller awaits session.update(optional = ...)
CycleStart(k, optional) ==
  /\ cyc.calls[k].pc = "idle"
  /\ cyc' = Session_update_begin(cyc, k, optional)
  /\ last' = Op("cycle_start", "-", {})
  /\ CycleFrame

\* the destroy of the children returns to ComponentNode.update
CycleDestroy(k) ==
  /\ cyc.calls[k].pc = "destroy"
  /\ cyc' = ComponentNode_update_destroyed(cyc, k)
  /\ last' = Op("cycle_destroy", "-", {})
  /\ CycleFrame

\* lc_render returns to _render_inner
CycleRender(k) ==
  /\ cyc.calls[k].pc = "render"
  /\ cyc' = ComponentNode_update_rendered(cyc, k)
  /\ last' = Op("cycle_render", "-", {})
  /\ CycleFrame

\* a handler or a worker writes a state the node reads: Context.request_update
CycleWrite(n) ==
  /\ n \notin cyc.pending
  /\ cyc' = [cyc EXCEPT !.pending = @ \cup {n}]
  /\ last' = Op("cycle_write", "-", {})
  /\ CycleFrame

NextCycles ==
  \/ \E k \in Calls, optional \in BOOLEAN : CycleStart(k, optional)
  \/ \E k \in Calls : CycleDestroy(k)
  \/ \E k \in Calls : CycleRender(k)
  \/ \E n \in CycleNodes : CycleWrite(n)

SpecCycles == Init /\ [][NextCycles]_vars

\* ------------------------------------------- a render that raises in update
CodeFrame ==
  SessionFrame /\ UNCHANGED <<jwt, now, resolved, kept, returned, lst, comp, cyc, view, rest>>

\* user code: from now on the render of c raises (a dependency it calls fails)
RenderBreaks(c) ==
  /\ phase = "live" /\ c \notin code.faulty
  /\ code' = [code EXCEPT !.faulty = @ \cup {c}]
  /\ last' = Op("render_breaks", c, {})
  /\ CodeFrame

NextFail ==
  \/ SessionInit(NoToken)
  \/ \E event \in Events : HandleEvents(<<event>>)
  \/ SessionUpdate(FALSE)
  \/ \E render_full \in BOOLEAN : RenderUpdate(FALSE, render_full)
  \/ \E c \in {"A", "B"} : RenderBreaks(c)
  \/ SessionDestroy

SpecFail == Init /\ [][NextFail]_vars

\* ------------------------------------------- serialisation of the node tree
\* Node.write: a component node writes its meta element, the text of its
\* element and its children, in order
RECURSIVE Node_write(_, _, _), Node_write_each(_, _, _)
Node_write_each(ch, shown, nodes) ==
  IF nodes = <<>> THEN <<>>
  ELSE Node_write(ch, shown, Head(nodes)) \o Node_write_each(ch, shown, Tail(nodes))

Node_write(ch, shown, n) ==
  <<"<rxxxt-meta", n>> \o (IF n = "root" THEN <<>> ELSE shown[n])
    \o Node_write_each(ch, shown, ch[n]) \o <<"</rxxxt-meta>">>

\* render_node: the text the node writes
render_node(s, n) == Node_write(s.children, s.shown, n)

RECURSIVE render_node_each(_, _)
render_node_each(s, nodes) ==
  IF nodes = <<>> THEN <<>>
  ELSE <<render_node(s, Head(nodes))>> \o render_node_each(s, Tail(nodes))

\* faulty variant: the pending updates are drained by the render
Session_render_full_drain(s) ==
  [s |-> State_pop_updates([s EXCEPT !.pending_renders = {}]), parts |-> <<render_node(s, "root")>>]

\* Session._render_full
Session_render_full(s) ==
  [s |-> [s EXCEPT !.pending_renders = {}], parts |-> <<render_node(s, "root")>>]

\* faulty variant: the roots stay in _pending_renders
Session_render_partial_keep(s) ==
  [s |-> s, parts |-> render_node_each(s, Session_find_roots(s.children, s.pending_renders))]

\* Session._render_partial
Session_render_partial(s) ==
  [s |-> [s EXCEPT !.pending_renders = {}],
   parts |-> render_node_each(s, Session_find_roots(s.children, s.pending_renders))]

\* Session.render_update without a state token
Session_render_update(s, render_full) ==
  IF render_full THEN Session_render_full(s) ELSE Session_render_partial(s)

PageFrame ==
  /\ History({}, {}, NoToken, {})
  /\ addressed' = NoRenders /\ stale' = 0 /\ invalid' = 0
  /\ UNCHANGED <<ws, response, jwt, now, resolved, kept, returned, lst, comp, cyc, code, rest>>

\* Session.init(None)
PageInit ==
  /\ phase = "new"
  /\ LET s1 == LazyNode_expand(Cur)
     IN Commit(s1) /\ view' = [view EXCEPT !.shown = s1.shown]
  /\ phase' = "live"
  /\ last' = Op("init", "-", {})
  /\ PageFrame

\* Session.handle_events of one event
PageEvent(event) ==
  /\ phase = "live"
  /\ LET s1 == Session_handle_events(Cur, <<event>>)
     IN /\ Len(s1.output_events) <= MaxOutputEvents
        /\ Commit([s1 EXCEPT !.handled = NoRenders])
  /\ last' = Op("handle_events", "-", {})
  /\ UNCHANGED <<phase, view>>
  /\ PageFrame

\* the end of Session.update: state.cleanup, execution.reset_event
PageUpdated(s, roots) ==
  \E s3 \in NewState_cleanup(s, {"#"}) :
    /\ Commit(State_set_update_event(s3))
    /\ view' = [view EXCEPT !.shown = s3.shown, !.updated = @ \cup SeqToSet(roots)]

\* Session.update()
PageUpdate ==
  /\ phase = "live"
  /\ PageUpdated(Session_update_roots(State_pop_updates(Cur), Session_find_roots(children, pending_updates)),
                 Session_find_roots(children, pending_updates))
  /\ last' = Op("update", "-", {})
  /\ UNCHANGED phase
  /\ PageFrame

\* Session.render_update(False, render_full): the HTML parts, the output events
PageRendered(r) ==
  /\ Commit(State_pop_output_events(r.s))
  /\ view' = [view EXCEPT !.parts = r.parts, !.updated = {}]

PageRender(render_full) ==
  /\ phase = "live"
  /\ PageRendered(Session_render_update(Cur, render_full))
  /\ last' = Op(IF render_full THEN "render_full" ELSE "render_partial", last.op, {})
  /\ UNCHANGED phase
  /\ PageFrame

NextRender ==
  \/ PageInit
  \/ \E event \in Events : PageEvent(event)
  \/ PageUpdate
  \/ \E render_full \in BOOLEAN : PageRender(render_full)

SpecRender == Init /\ [][NextRender]_vars

\* --------------------------------- rxxxt/helpers.py PathPattern, app.py Router
MaxRoutes == 2         \* routes registered on one router
MaxPath == 4           \* characters of a location

\* texts are sequences of characters
PathChars == {"/", "e", "1"}
Paths == {<<"/">> \o q : q \in UNION {[1..n -> PathChars] : n \in 0..(MaxPath - 1)}}

\* "/e", "/{a}", "/{a}e", "/{p*}"
RoutePatterns ==
  {<<"/", "e">>, <<"/", "{", "a", "}">>, <<"/", "{", "a", "}", "e">>, <<"/", "{", "p", "*", "}">>}

\* s[a:b] of Python, with positions counted from 1 and b included
Slice(s, a, b) ==
  LET hi == IF b < Len(s) THEN b ELSE Len(s)
  IN IF a < 1 \/ a > hi THEN <<>> ELSE [i \in 1..(hi - a + 1) |-> s[a + i - 1]]

\* str.find(sub, start): the first position from start on, 0 for -1
Find(s, sub, start) ==
  LET at == {i \in start..(Len(s) - Len(sub) + 1) : Slice(s, i, i + Len(sub) - 1) = sub}
  IN IF at = {} THEN 0 ELSE CHOOSE i \in at : \A j \in at : i <= j

RECURSIVE rstrip(_)
rstrip(s) == IF s # <<>> /\ s[Len(s)] = "/" THEN rstrip(Slice(s, 1, Len(s) - 1)) ELSE s

\* the while loop of PathPattern.__init__: the positions of "{" and of "}"
RECURSIVE param_ranges(_, _)
param_ranges(pattern, param_search_start) ==
  LET param_start == Find(pattern, <<"{">>, param_search_start)
      param_end == Find(pattern, <<"}">>, param_start)
  IN IF param_start = 0 THEN <<>>
     ELSE IF param_end = 0 THEN <<"ValueError">>
     ELSE <<<<param_start, param_end>>>> \o param_ranges(pattern, param_end)

\* the for loop of PathPattern.__init__: the texts between the parameters
\* and, for each parameter, whether it ends with "*"
RECURSIVE PathPattern_split(_, _, _)
PathPattern_split(pattern, ranges, part_start) ==
  IF ranges = <<>> THEN [parts |-> <<Slice(pattern, part_start, Len(pattern))>>, params |-> <<>>]
  ELSE LET ps == Head(ranges)[1]
           pe == Head(ranges)[2]
           tl == PathPattern_split(pattern, Tail(ranges), pe + 1)
       IN [parts |-> <<Slice(pattern, part_start, ps - 1)>> \o tl.parts,
           params |-> <<pattern[pe - 1] = "*">> \o tl.params]

\* PathPattern(pattern); the patterns registered are well formed
PathPattern(pattern) ==
  LET p == IF Len(pattern) > 1 THEN rstrip(pattern) ELSE pattern
  IN PathPattern_split(p, param_ranges(p, 1), 1)

NoMatch == [ok |-> FALSE, vals |-> <<>>]

\* the for loop of PathPattern.match, from the parameter idx on.  After the
\* last parameter the loop ends and the parameters are returned
RECURSIVE PathPattern_match_from(_, _, _, _, _)
PathPattern_match_from(self, path, idx, current_index, vals) ==
  IF idx > Len(self.params) THEN [ok |-> TRUE, vals |-> vals]
  ELSE LET part1 == self.parts[idx]
           part2 == self.parts[idx + 1]
           after == current_index + Len(part1)
           part2_start == Find(path, part2, after)
           param_val == IF part2 = <<>> /\ idx = Len(self.parts) - 1
                        THEN Slice(path, after, Len(path))
                        ELSE Slice(path, after, part2_start - 1)
       IN IF Slice(path, current_index, after - 1) # part1 THEN NoMatch
          ELSE IF ~(part2 = <<>> /\ idx = Len(self.parts) - 1) /\ part2_start = 0 THEN NoMatch
          ELSE IF (\E i \in DOMAIN param_val : param_val[i] = "/") /\ ~self.params[idx] THEN NoMatch
          ELSE PathPattern_match_from(self, path, idx + 1, after + Len(param_val), Append(vals, param_val))

\* PathPattern.match: the values of the parameters, or None
PathPattern_match(self, path) ==
  IF Len(self.parts) = 1
  THEN (IF path = self.parts[1] THEN [ok |-> TRUE, vals |-> <<>>] ELSE NoMatch)
  ELSE PathPattern_match_from(self, path, 1, 1, <<>>)

\* El.h1(content=["Not found!"])
NotFound == [route |-> 0]

\* Router.RoutedElement._get_element: the factory of the first route whose
\* pattern matches, named by its position
RECURSIVE Router_get_element_from(_, _, _)
Router_get_element_from(routes, path, i) ==
  IF i > Len(routes) THEN NotFound
  ELSE IF PathPattern_match(routes[i], path).ok THEN [route |-> i]
  ELSE Router_get_element_from(routes, path, i + 1)

Router_get_element(routes, path) == Router_get_element_from(routes, path, 1)

RouterFrame ==
  /\ SessionFrame
  /\ UNCHANGED <<jwt, now, resolved, kept, returned, lst, comp, cyc, code, view, waiter, stacks, sent>>

\* Router.add_route
RouterAddRoute(path) ==
  /\ Len(router.routes) < MaxRoutes
  /\ router' = [router EXCEPT !.routes = Append(@, PathPattern(path)), !.fresh = FALSE]
  /\ last' = Op("add_route", "-", {})
  /\ RouterFrame

\* '!location' is written
RouterSetLocation(path) ==
  /\ router' = [router EXCEPT !.location = path, !.fresh = FALSE]
  /\ last' = Op("set_location", "-", {})
  /\ RouterFrame

\* the router is rendered again
RouterUpdate ==
  /\ router.location # <<>>
  /\ router' = [router EXCEPT !.element = Router_get_element(router.routes, router.location), !.fresh = TRUE]
  /\ last' = Op("router_update", "-", {})
  /\ RouterFrame

NextRouter ==
  \/ \E path \in RoutePatterns : RouterAddRoute(path)
  \/ \E path \in Paths : RouterSetLocation(path)
  \/ RouterUpdate

SpecRouter == Init /\ [][NextRouter]_vars

\* --------------------------------------- a render that requests an update
\* user code: the render of c calls self.context.request_update()
\* (tests/test_session.py test_lifecycle)
RenderRequests(c) ==
  /\ phase = "new" /\ c \notin code.selfreq
  /\ code' = [code EXCEPT !.selfreq = @ \cup {c}]
  /\ last' = Op("render_requests", c, {})
  /\ CodeFrame

NextSelf ==
  \/ \E c \in {"A", "B"} : RenderRequests(c)
  \/ SessionInit(NoToken)
  \/ \E event \in Events : HandleEvents(<<event>>)
  \/ \E optional \in BOOLEAN : SessionUpdate(optional)
  \/ \E render_full \in BOOLEAN : RenderUpdate(FALSE, render_full)

SpecSelf == Init /\ [][NextSelf]_vars

\* ------------------------------------------ Session.wait_for_update, by step
\* faulty variant: the signal is read as it was left
Session_wait_for_update_test_stale(s, w) ==
  [s |-> s, w |-> IF s.update_event THEN [w EXCEPT !.pc = "idle"]
                  ELSE [pc |-> "waiting", again |-> w.pc = "sleeping"]]

\* execution.reset_event(), then the test of the while loop: the call
\* returns if the signal is set, and awaits _update_event.wait() if not
Session_wait_for_update_test(s, w) ==
  [s |-> State_set_update_event(s),
   w |-> IF State_set_update_event(s).update_event THEN [w EXCEPT !.pc = "idle"]
         ELSE [pc |-> "waiting", again |-> w.pc = "sleeping"]]

WaitFrame ==
  /\ History({}, {}, NoToken, {})
  /\ addressed' = NoRenders /\ stale' = 0 /\ invalid' = 0
  /\ UNCHANGED <<phase, ws, response>>
  /\ UNCHANGED <<jwt, now, resolved, kept, returned, lst, comp, cyc, code, view, router, stacks, sent>>

WaitTested(r) ==
  /\ Commit(r.s)
  /\ waiter' = r.w
  /\ last' = Op(IF r.w.pc = "idle" THEN "wait_return" ELSE "wait_blocks", "-", {})

\* a caller awaits session.wait_for_update()
WaitStart ==
  /\ waiter.pc = "idle"
  /\ WaitTested(Session_wait_for_update_test(Cur, [waiter EXCEPT !.again = FALSE]))
  /\ WaitFrame

\* _update_event.wait() returns: the signal is set; asyncio.sleep begins
WaitWake ==
  /\ waiter.pc = "waiting" /\ update_event
  /\ Commit(Cur)
  /\ waiter' = [waiter EXCEPT !.pc = "sleeping"]
  /\ last' = Op("wait_wakes", "-", {})
  /\ WaitFrame

\* asyncio.sleep(0.001) returns
WaitSlept ==
  /\ waiter.pc = "sleeping"
  /\ WaitTested(Session_wait_for_update_test(Cur, waiter))
  /\ WaitFrame

NextWait ==
  \/ SessionInit(NoToken)
  \/ \E c \in Comps : CtxRequestUpdate(c)
  \/ \E location \in NavLocations : CtxNavigate(location)
  \/ \E optional \in BOOLEAN : SessionUpdate(optional)
  \/ \E render_full \in BOOLEAN : RenderUpdate(FALSE, render_full)
  \/ WaitStart
  \/ WaitWake
  \/ WaitSlept

SpecWait == Init /\ [][NextWait]_vars

\* the event loop resumes a task whose wait or sleep is over
SpecWaitFair == SpecWait /\ WF_vars(WaitWake) /\ WF_vars(WaitSlept)

\* ------------------------------- rxxxt/execution.py  get_context_stack_sid
MaxDepth == 3          \* keys of one context stack

\* keys of a context stack: the index 0, and strings given as their characters
StackKeys == {[isint |-> TRUE, txt |-> <<"0">>], [isint |-> FALSE, txt |-> <<"0">>],
              [isint |-> FALSE, txt |-> <<>>], [isint |-> FALSE, txt |-> <<";">>]}

\* k.replace(";", ";;")
RECURSIVE str_replace_semicolon(_)
str_replace_semicolon(k) ==
  IF k = <<>> THEN <<>>
  ELSE (IF Head(k) = ";" THEN <<";", ";">> ELSE <<Head(k)>>) \o str_replace_semicolon(Tail(k))

\* the characters fed to the hasher by get_context_stack_sid
RECURSIVE sid_text(_)
sid_text(stack) ==
  IF stack = <<>> THEN <<>>
  ELSE (IF Head(stack).isint THEN Head(stack).txt ELSE str_replace_semicolon(Head(stack).txt))
         \o <<";">> \o sid_text(Tail(stack))

\* Context.sub(key) on one of two contexts
SidSub(w, key) ==
  /\ Len(stacks[w]) < MaxDepth
  /\ stacks' = [stacks EXCEPT ![w] = Append(@, key)]
  /\ last' = Op("sub", w, {})
  /\ SessionFrame
  /\ UNCHANGED <<jwt, now, resolved, kept, returned, lst, comp, cyc, code, view, router, waiter, sent>>

NextSid == \E w \in {"a", "b"}, key \in StackKeys : SidSub(w, key)

SpecSid == Init /\ [][NextSid]_vars

\* ------------------- rxxxt/state.py  local and global state of two instances
\* a div renders a list of item components; an element of the list is the
\* item itself or KeyedElement(key, item); every item shows its local state
\* and the global state
MixedElements ==
  {[keyed |-> FALSE, key |-> "-"], [keyed |-> TRUE, key |-> "0"], [keyed |-> TRUE, key |-> "k"]}

MixedContents == UNION {[1..n -> MixedElements] : n \in 1..2}

\* Element.tonode of an element of the list: the context of its component node
Element_tonode(context, el) ==
  IF el.keyed THEN KeyedElement_tonode(context, el.key) ELSE context

\* element_content_to_nodes over a list of plain and keyed items
mixed_content_to_nodes(context, content) ==
  [idx \in DOMAIN content |->
     [stack |-> Element_tonode(Context_sub(context, Seg(TRUE, IntText(idx - 1))), content[idx]),
      item |-> idx]]

\* StateDescriptor._get_state_name of a global state: "global;<name>"
StateDescriptor_get_state_name_global == KG

\* the keys of every state an item can read
LocalKeys ==
  {StateDescriptor_get_state_name(Context_sub(ListParent, seg)) :
     seg \in {Seg(TRUE, "0"), Seg(TRUE, "1"), Seg(FALSE, "0"), Seg(FALSE, "k")}}
  \cup {StateDescriptor_get_state_name_global}

\* ComponentNode.expand of every item node: the render reads the local state
\* and the global state of the item (StateDescriptorBase.__get__)
RECURSIVE InstanceNodes_expand(_, _)
InstanceNodes_expand(s, nodes) ==
  IF nodes = <<>> THEN s
  ELSE InstanceNodes_expand(
         Context_get_state_str_subscribe(
           Context_get_state_str_subscribe(s, Head(nodes).stack,
                                           StateDescriptor_get_state_name(Head(nodes).stack)),
           Head(nodes).stack, StateDescriptor_get_state_name_global),
         Tail(nodes))

InitLocal == InitOver(LocalKeys, FALSE)

\* the first render of the div: every item node is expanded
LocalRender(content) ==
  /\ lst.nodes = <<>>
  /\ LET nodes == mixed_content_to_nodes(ListParent, content)
         s1 == InstanceNodes_expand(State_pop_updates(Cur), nodes)
     IN /\ Commit(State_set_update_event(s1))
        /\ lst' = [nodes |-> nodes, read |-> ItemReads(s1, nodes)]
  /\ last' = Op("local_render", "-", {})
  /\ QuietFrame

\* StateDescriptorBase.__set__ of the local state of the item at place i
LocalWrite(i, value) ==
  /\ i \in DOMAIN lst.nodes
  /\ Commit(Context_set_state(Cur, StateDescriptor_get_state_name(lst.nodes[i].stack), value))
  /\ lst' = lst
  /\ last' = Op("local_write", i, {})
  /\ QuietFrame

\* StateDescriptorBase.__set__ of the global state by the item at place i
GlobalWrite(i, value) ==
  /\ i \in DOMAIN lst.nodes
  /\ Commit(Context_set_state(Cur, StateDescriptor_get_state_name_global, value))
  /\ lst' = lst
  /\ last' = Op("global_write", i, {})
  /\ QuietFrame

\* Session.update: the pending item nodes are rendered again
LocalUpdate ==
  /\ lst.nodes # <<>>
  /\ LET s2 == InstanceNodes_expand(State_pop_updates(Cur), PendingNodes(lst.nodes, pending_updates))
     IN /\ Commit(State_set_update_event(s2))
        /\ lst' = [nodes |-> lst.nodes, read |-> ItemReads(s2, lst.nodes)]
  /\ last' = Op("local_update", "-", {})
  /\ QuietFrame

NextLocal ==
  \/ \E content \in MixedContents : LocalRender(content)
  \/ \E i \in 1..2, value \in Values : LocalWrite(i, value)
  \/ \E i \in 1..2, value \in Values : GlobalWrite(i, value)
  \/ LocalUpdate

SpecLocal == InitLocal /\ [][NextLocal]_vars

\* ------------------------ rxxxt/app.py  the loop of App._handle_websocket
\* the update messages of a client: no event, or one
SocketEvents ==
  {InputEvent("A", "request_update", "v1"), InputEvent("A", "navigate", "v1"),
   InputEvent("P", "set", "v2")}

SocketBatches == UNION {[1..n -> SocketEvents] : n \in 0..1}

ForceRefreshOutputEvent == [event |-> "force-refresh"]

\* executor.execute_root: every execution has its own list of output events
Socket_execute_root(s, events) ==
  AppExecutor_execute_root(State_pop_output_events(s), events)

\* the loop over execution.output_events: the events that are kept
RECURSIVE App_websocket_filter(_)
App_websocket_filter(events) ==
  IF events = <<>> THEN <<>>
  ELSE (IF Head(events).event = "use-websocket" THEN <<>> ELSE <<Head(events)>>)
         \o App_websocket_filter(Tail(events))

\* the loop over execution.output_events: closing, which was False before
App_websocket_closing(events) ==
  \E i \in DOMAIN events : events[i].event = "use-websocket" /\ ~events[i].websocket

\* the message had events and the first execution left none to send: the
\* content is executed again, and the events of that execution are sent
App_websocket_again(first, closing, emitted) ==
  [s |-> Socket_execute_root(first, <<>>),
   output_events |-> Socket_execute_root(first, <<>>).output_events,
   closing |-> closing,
   off |-> emitted \/ App_websocket_closing(Socket_execute_root(first, <<>>).output_events)]

\* the body of the loop after the first execution: what is sent, whether the
\* loop ends, and whether a render called use_websocket(False)
App_websocket_reply(first, events, filtered, closing) ==
  IF first.raised # None \/ Len(events) = 0
  THEN [s |-> first, output_events |-> filtered, closing |-> closing, off |-> closing]
  ELSE IF Len(filtered) > 0
  THEN [s |-> first, output_events |-> Append(filtered, ForceRefreshOutputEvent),
        closing |-> closing, off |-> closing]
  ELSE App_websocket_again(first, closing, closing)

App_websocket_first(first, events) ==
  App_websocket_reply(first, events, App_websocket_filter(first.output_events),
                      App_websocket_closing(first.output_events))

\* one round of the loop: the executions of an update message
App_websocket_round(s, events) == App_websocket_first(Socket_execute_root(s, events), events)

\* state_token of the round, and the message that is sent
App_websocket_message(r, enable, last_state_token) ==
  [events |-> r.output_events, closing |-> r.closing, off |-> r.off,
   state_token |-> IF enable \/ r.closing THEN Token(State_user_data(r.s)) ELSE NoToken,
   from |-> IF enable \/ r.closing THEN last_state_token ELSE NoToken,
   last_state_token |-> IF enable \/ r.closing THEN Token(State_user_data(r.s)) ELSE last_state_token,
   enable |-> enable, rounds |-> 1]

SocketFrame ==
  /\ History({}, {}, NoToken, {})
  /\ addressed' = NoRenders /\ stale' = 0 /\ invalid' = 0
  /\ UNCHANGED <<phase, jwt, now, resolved, kept, returned, lst, comp, cyc, view,
                 router, waiter, stacks>>

\* user code: the render of c calls self.context.use_websocket(False)
RenderLeavesSocket(c) ==
  /\ ws = "none" /\ c \notin code.offws
  /\ code' = [code EXCEPT !.offws = @ \cup {c}]
  /\ last' = Op("render_leaves_socket", c, {})
  /\ CodeFrame

\* user code: the render of c calls self.context.request_update()
SocketRenderRequests(c) == ws = "none" /\ RenderRequests(c)

\* App._handle_websocket up to the loop: accept, init message, executor
SocketConnect(enableStateUpdates) ==
  /\ ws = "none"
  /\ Commit(AppExecutor(TRUE, resolve(NoToken)))
  /\ ws' = "open"
  /\ response' = NoResponse
  /\ sent' = [events |-> <<>>, closing |-> FALSE, off |-> FALSE, state_token |-> NoToken,
              from |-> NoToken, last_state_token |-> NoToken,
              enable |-> enableStateUpdates, rounds |-> 0]
  /\ last' = Op("socket_connect", "-", {})
  /\ SocketFrame /\ UNCHANGED code

\* one round of the loop: an update message is executed and answered;
\* App.__call__ closes the connection with code 1011 on an exception
SocketUpdate(events) ==
  /\ ws = "open" /\ ~sent.closing
  /\ Commit(App_websocket_round(Cur, events).s)
  /\ IF App_websocket_round(Cur, events).s.raised # None
     THEN /\ ws' = "closed"
          /\ response' = Response("1011", FALSE, NoToken)
          /\ sent' = [sent EXCEPT !.events = <<>>, !.state_token = NoToken, !.rounds = 0]
     ELSE /\ ws' = "open"
          /\ response' = Response("message", TRUE,
                                  App_websocket_message(App_websocket_round(Cur, events),
                                                        sent.enable, sent.last_state_token).state_token)
          /\ sent' = App_websocket_message(App_websocket_round(Cur, events),
                                           sent.enable, sent.last_state_token)
  /\ last' = Op("socket_update", "-", {})
  /\ SocketFrame /\ UNCHANGED code

\* the loop has ended (closing), or the client disconnects: the connection
\* is closed
SocketClose ==
  /\ ws = "open"
  /\ Commit(Cur)
  /\ ws' = "closed"
  /\ response' = NoResponse
  /\ sent' = [sent EXCEPT !.rounds = 0]
  /\ last' = Op("socket_close", "-", {})
  /\ SocketFrame /\ UNCHANGED code

NextSocket ==
  \/ \E c \in {"A", "B"} : RenderLeavesSocket(c)
  \/ \E c \in {"A", "B"} : SocketRenderRequests(c)
  \/ \E enableStateUpdates \in BOOLEAN : SocketConnect(enableStateUpdates)
  \/ \E events \in SocketBatches : SocketUpdate(events)
  \/ SocketClose

InitSocket == InitWith(TRUE)

SpecSocket == InitSocket /\ [][NextSocket]_vars

\* ------------------------------------------------------- replay of a token
ReplayEvents ==
  {InputEvent("P", "set", "v1"), InputEvent("P", "set", "v2"), InputEvent("A", "set", "v1")}

\* the client keeps the token of the response it just received
KeepToken ==
  /\ minted_token # NoToken
  /\ kept' = [token |-> minted_token, store |-> key_store]
  /\ last' = Op("keep_token", "-", {})
  /\ SessionFrame /\ UNCHANGED <<jwt, now, resolved, returned, lst, comp, cyc, code, view, rest>>

\* Session(config, base) and Session.init(token) with the token kept, no
\* event: a new session, whatever the session that issued the token did since
Replay ==
  /\ kept.token # NoToken
  /\ Commit(LazyNode_expand(NewState_set_many(Fresh(FALSE), resolve(kept.token))))
  /\ phase' = "live"
  /\ last' = Op("replay", "-", {k \in Keys : key_store[k] # kept.store[k]})
  /\ NoHistory

NextReplay ==
  \/ SessionInit(NoToken)
  \/ \E e \in ReplayEvents : HandleEvents(<<e>>)
  \/ SessionUpdate(FALSE)
  \/ RenderUpdate(TRUE, TRUE)
  \/ KeepToken
  \/ Replay

SpecReplay == Init /\ [][NextReplay]_vars

\* ------------------------------------------ rxxxt/state.py  JWTStateResolver
MaxNow == 2            \* ticks the clock runs
MaxAge == 1            \* JWTStateResolver.max_age, in ticks

Secrets == {"k1", "k2"}
Algorithms == {"HS512", "HS256"}
JWTStateResolver(secret, algorithm) == [secret |-> secret, algorithm |-> algorithm]

\* the resolver of the application, and the resolvers tokens can come from
Server == JWTStateResolver("k1", "HS512")
Issuers == {Server, JWTStateResolver("k2", "HS512"), JWTStateResolver("k1", "HS256")}

\* durable-state maps: string keys to string values
StateMaps == UNION {[ks -> Values] : ks \in SUBSET {KG, KA}}

\* bytes are a content and a length, kept modulo 3; base64 text is a content
\* and a length without padding, kept modulo 4
Bytes(body, n3) == [body |-> body, n3 |-> n3]
Text(body, rem) == [body |-> body, rem |-> rem]
Junk == [kind |-> "junk"]

RECURSIVE EntriesLen(_)
EntriesLen(data) ==
  IF DOMAIN data = {} THEN 0
  ELSE LET k == CHOOSE x \in DOMAIN data : TRUE
       IN Len(k) + Len(data[k]) + 8 + EntriesLen([x \in DOMAIN data \ {k} |-> data[x]])

\* json.dumps(...).encode("utf-8") of the header and of the payload
json_dumps_header(algorithm) ==
  Bytes([kind |-> "header", typ |-> "JWT", alg |-> algorithm], (24 + Len(algorithm)) % 3)

json_dumps_payload(exp, data) ==
  Bytes([kind |-> "payload", exp |-> exp, data |-> data], (21 + EntriesLen(data)) % 3)

\* json.loads: bytes that are no JSON text raise
json_loads(bytes) ==
  IF bytes.body.kind = "junk" THEN Raise("JSONDecodeError") ELSE Return(bytes.body)

\* hmac.digest(secret, msg, digest): 64 bytes for sha512, 32 for sha256
hmac_digest(secret, msg, algorithm) ==
  Bytes([kind |-> "mac", secret |-> secret, msg |-> msg], IF algorithm = "HS512" THEN 1 ELSE 2)

\* JWTStateResolver.b64url_encode: the padding is stripped
b64url_encode(value) ==
  Text(value.body, CASE value.n3 = 0 -> 0 [] value.n3 = 1 -> 2 [] OTHER -> 3)

\* faulty variant: no padding is added before decoding
b64url_decode_nopad(value) ==
  IF value.rem # 0 THEN Raise("binascii.Error") ELSE Return(Bytes(value.body, 0))

\* JWTStateResolver.b64url_decode: 4 - len % 4 padding characters are added;
\* one data character more than a multiple of 4 cannot be decoded
b64url_decode(value) ==
  IF value.rem = 1 THEN Raise("binascii.Error")
  ELSE Return(Bytes(value.body, CASE value.rem = 0 -> 0 [] value.rem = 2 -> 1 [] OTHER -> 2))

\* a token: the number of "."-separated segments, the first and second
\* segment and the text after the last "."
Jwt(parts, header, payload, signature) ==
  [parts |-> parts, header |-> header, payload |-> payload, signature |-> signature]

\* JWTStateResolver.create_token at time t
JWTStateResolver_create_token(self, data, t) ==
  LET header == b64url_encode(json_dumps_header(self.algorithm))
      payload == b64url_encode(json_dumps_payload(t + MaxAge, data))
      signature == hmac_digest(self.secret, <<header, payload>>, self.algorithm)
  IN Jwt(3, header, payload, b64url_encode(signature))

\* the end of JWTStateResolver.resolve: the payload of a token whose
\* signature matched
JWTStateResolver_resolve_payload(payload, t) ==
  CASE payload.exc # None -> Raise(payload.exc)
    [] json_loads(payload.val).exc # None -> Raise("JSONDecodeError")
    [] json_loads(payload.val).val.kind # "payload" -> Raise("StateResolverError")
    [] json_loads(payload.val).val.exp < t -> Raise("StateResolverError")
    [] OTHER -> Return(json_loads(payload.val).val.data)

\* JWTStateResolver.resolve at time t
JWTStateResolver_resolve(self, token, t) ==
  CASE token.parts # 3 -> Raise("StateResolverError")
    [] b64url_decode(token.header).exc # None -> Raise("StateResolverError")
    [] json_loads(b64url_decode(token.header).val).exc # None -> Raise("StateResolverError")
    [] json_loads(b64url_decode(token.header).val).val.kind # "header" -> Raise("StateResolverError")
    [] json_loads(b64url_decode(token.header).val).val.alg # self.algorithm -> Raise("StateResolverError")
    [] b64url_decode(token.signature).exc # None -> Raise(b64url_decode(token.signature).exc)
    [] b64url_decode(token.signature).val
         # hmac_digest(self.secret, <<token.header, token.payload>>, self.algorithm)
         -> Raise("StateResolverError")
    [] OTHER -> JWTStateResolver_resolve_payload(b64url_decode(token.payload), t)

\* App._get_state_from_token: a StateResolverError gives the empty map
App_get_state_from_token(self, token, t) ==
  IF JWTStateResolver_resolve(self, token, t).exc = "StateResolverError" THEN Return(<<>>)
  ELSE JWTStateResolver_resolve(self, token, t)

\* Session.init up to set_many: the resolver is called without a handler
Session_init_resolve(self, token, t) == JWTStateResolver_resolve(self, token, t)

\* what a client can make of a token without the secret: cut or add a
\* segment, replace a segment by other text
Tampered(token) ==
  {Jwt(n, token.header, token.payload, token.signature) : n \in {1, 2, 4}}
  \cup {Jwt(3, h, token.payload, token.signature) :
          h \in {Text(Junk, 0), Text(Junk, 1), Text([kind |-> "list"], 2)}}
  \cup {Jwt(3, token.header, p, token.signature) :
          p \in {Text(Junk, 0), Text(Junk, 1),
                 b64url_encode(json_dumps_payload(MaxNow + MaxAge, (KG :> "v2")))}}
  \cup {Jwt(3, token.header, token.payload, s) : s \in {Text(Junk, 2), Text(Junk, 1)}}

\* the token is one the server issued
Genuine(token) ==
  \E data \in StateMaps, t \in 0..MaxNow : token = JWTStateResolver_create_token(Server, data, t)

\* a resolver issues a token for a durable-state map
TokCreate(self, data) ==
  /\ jwt' = JWTStateResolver_create_token(self, data, now)
  /\ resolved' = NoResult
  /\ last' = Op("create_token", "-", {})
  /\ UNCHANGED now /\ TokenFrame

\* the client alters the token it holds
TokTamper(token) ==
  /\ jwt # NoJwt /\ token \in Tampered(jwt)
  /\ jwt' = token
  /\ resolved' = NoResult
  /\ last' = Op("tamper", "-", {})
  /\ UNCHANGED now /\ TokenFrame

\* time passes
TokTick ==
  /\ now < MaxNow
  /\ now' = now + 1
  /\ resolved' = NoResult
  /\ last' = Op("tick", "-", {})
  /\ UNCHANGED jwt /\ TokenFrame

\* the server resolves the token the client sends
TokResolve ==
  /\ jwt # NoJwt
  /\ resolved' = JWTStateResolver_resolve(Server, jwt, now)
  /\ last' = Op("resolve", "-", {})
  /\ UNCHANGED <<jwt, now>> /\ TokenFrame

\* the application starts an exchange from the token
TokAppStart ==
  /\ jwt # NoJwt
  /\ resolved' = App_get_state_from_token(Server, jwt, now)
  /\ last' = Op("get_state_from_token", "-", {})
  /\ UNCHANGED <<jwt, now>> /\ TokenFrame

\* a session is initialised from the token
TokSessionInit ==
  /\ jwt # NoJwt
  /\ resolved' = Session_init_resolve(Server, jwt, now)
  /\ last' = Op("session_init", "-", {})
  /\ UNCHANGED <<jwt, now>> /\ TokenFrame

NextToken ==
  \/ \E self \in Issuers, data \in StateMaps : TokCreate(self, data)
  \/ jwt # NoJwt /\ \E token \in Tampered(jwt) : TokTamper(token)
  \/ TokTick
  \/ TokResolve
  \/ TokAppStart
  \/ TokSessionInit

SpecToken == Init /\ [][NextToken]_vars

TypeOK ==
  /\ pending_updates \subseteq Contexts
  /\ Len(output_events) <= MaxOutputEvents
  /\ phase \in {"new", "live", "destroyed"}

\* ------------------------------------------------------------ properties
Live == IF phase = "live" THEN LiveNodes(children) ELSE {}

Ephemeral(k) == Len(k) > 0 /\ k[1] = "#"
Protocol(k) == Len(k) > 0 /\ k[1] = "!"

\* the parent of a component in the tree of the application
ParentOf(c) == IF c = "P" THEN "root" ELSE "P"

RECURSIVE AncestorsOf(_)
AncestorsOf(c) == IF c = "root" THEN {} ELSE {ParentOf(c)} \cup AncestorsOf(ParentOf(c))

\* C1: coalescing.  In one Session.update no component is rendered more than
\* once, every drained context that addresses a node of the tree is rendered
\* exactly once, and only drained contexts and their descendants are rendered,
\* however many writes and requests put the contexts into the set.
C1_Coalescing ==
  last.op = "update" =>
    /\ \A c \in Comps : render_count[c] <= 1
    /\ \A c \in popped \cap Live : render_count[c] = 1
    /\ \A c \in Comps : render_count[c] > 0 => ({c} \cup AncestorsOf(c)) \cap popped # {}

\* an update that drained a context which the batch before it requested more than once
C1_Witness ==
  /\ last.op = "update"
  /\ \E c \in popped_multi \cap popped \cap Live : render_count[c] = 1

\* C2: ordering.  handle_events renders nothing and changes no node, it only
\* adds to the pending-update set; the update that follows it drains the whole
\* set at once and renders every drained context that is in the tree once.
C2_DispatchThenUpdate ==
  [][/\ last'.op = "handle_events" =>
          /\ children' = children
          /\ render_count' = NoRenders
          /\ pending_renders' = pending_renders
          /\ pending_updates \subseteq pending_updates'
     /\ (last.op = "handle_events" /\ last'.op = "update") =>
          /\ popped' = pending_updates
          /\ \A c \in pending_updates \cap LiveNodes(children') : render_count'[c] = 1
          /\ \A c \in pending_updates \cap LiveNodes(children') :
               ({c} \cup AncestorsOf(c)) \cap pending_renders' # {}]_vars

\* an update after a batch that made the siblings A and B dirty: both are
\* rendered in the one pass and their parent is not
C2_Witness ==
  /\ last.op = "update" /\ last.ctx = "handle_events"
  /\ {"A", "B"} \subseteq popped
  /\ render_count = [c \in Comps |-> IF c = "P" THEN 0 ELSE 1]

\* C3: a write of the value a key already has changes neither the
\* pending-update set nor the update signal.
C3_EqualWriteIsNoOp ==
  [][(last'.op = "update_state_strs" /\ \A k \in last'.keys : key_store'[k] = key_store[k]) =>
        /\ pending_updates' = pending_updates
        /\ update_event' = update_event]_vars

\* C4: a write that changes a value adds to the pending-update set the
\* subscribers of the written keys, all of them and nothing else.
C4_WriteNotifiesSubscribers ==
  [][(last'.op = "update_state_strs" /\ \E k \in last'.keys : key_store'[k] # key_store[k]) =>
        pending_updates' = pending_updates \cup UNION {key_subscribers[k] : k \in last'.keys}]_vars

\* a changed write to a key with a subscriber, while some live component is not pending
C4_Witness ==
  /\ last.op = "update_state_strs" /\ last.ctx = "changed"
  /\ \E k \in last.keys : key_subscribers[k] # {} /\ key_subscribers[k] \subseteq pending_updates
  /\ Live \ pending_updates # {}

\* C5: a read leaves the reader in the subscriber set of the key, whether or
\* not the key has a value, and a write to the key right after it makes the
\* reader pending.
C5_ReadSubscribes ==
  [][/\ last'.op = "read" => \A k \in last'.keys : last'.ctx \in key_subscribers'[k]
     /\ (last.op = "read" /\ last'.op = "update_state_strs" /\ last.keys \subseteq last'.keys) =>
          last.ctx \in pending_updates']_vars

\* a read of a key that has no value
C5_Witness ==
  /\ last.op = "read"
  /\ \E k \in last.keys : key_store[k] = None /\ last.ctx \in key_subscribers[k]

\* C6: after a store operation the update signal is set exactly when the
\* pending-update set or the output-event queue is non-empty.
C6_SignalIsLevel ==
  last.op \in {"request_update", "update_state_strs", "navigate", "update",
               "render_update", "render_update_token", "destroy"} =>
    (update_event <=> (pending_updates # {} \/ Len(output_events) > 0))

\* C7: the context of a node that is not in the tree (destroyed, or the
\* session destroyed) is in no subscriber set and not pending.
C7_DestroyReleases ==
  \A c \in Comps \ Live :
    /\ c \notin pending_updates
    /\ \A k \in Keys : c \notin key_subscribers[k]

\* C8: after a cleanup no "#" key without a subscriber has a value.
C8_CleanupPurgesAll ==
  last.op \in {"update", "render_update_token"} =>
    \A k \in Keys : (Ephemeral(k) /\ key_subscribers[k] = {}) => key_store[k] = None

\* C9: cleanup, update and render_update keep every key that is not
\* "#"-prefixed, subscribed or not, and every "#" key with a subscriber.
C9_CleanupFrame ==
  [][last'.op \in {"cleanup", "update", "render_update", "render_update_token"} =>
        \A k \in Keys :
          (key_store[k] # None /\ (~Ephemeral(k) \/ key_subscribers'[k] # {})) =>
            key_store'[k] = key_store[k]]_vars

\* a cleanup that found a durable or protocol key with a value and no subscriber
C9_Witness ==
  /\ last.op \in {"cleanup", "update", "render_update_token"}
  /\ \E k \in Keys : ~Ephemeral(k) /\ key_store[k] # None /\ key_subscribers[k] = {}
  /\ \E k \in Keys : Ephemeral(k) /\ key_store[k] # None /\ key_subscribers[k] # {}

\* C10 as stated: the snapshot handed to create_token holds no "!" key.
C10_NoProtocolKeyInSnapshot ==
  minted_token.present => \A k \in Keys : Protocol(k) => minted_token.data[k] = None

\* C10 amended: the snapshot holds a "!" key exactly when the key has a
\* value and a subscriber.
C10_ProtocolKeyOnlyIfUsed ==
  minted_token.present =>
    \A k \in Keys : Protocol(k) =>
      minted_token.data[k] = (IF key_subscribers[k] # {} THEN key_store[k] ELSE None)

\* a token minted while "!location" has a value and no subscriber
C10_Witness ==
  /\ minted_token.present
  /\ \E k \in Keys : Protocol(k) /\ key_store[k] # None /\ key_subscribers[k] = {}
                     /\ minted_token.data[k] = None

\* ------------------------------------------------- lifecycle properties
\* components for which the call made a new node
Created(log) == {log[i].c : i \in {j \in 1..Len(log) : log[j].h = "create"}}

\* positions of hook h of component c in the record
Pos(log, h, c) == {i \in 1..Len(log) : log[i] = [h |-> h, c |-> c]}

DestroyHooks == {"on_before_destroy", "on_after_destroy", "unsubscribe_all"}

\* nodes reachable from the root
TreeNodes(ch) == SeqToSet(Preorder(ch, "root"))

\* C11: destroyed is terminal.  A call on a node that was destroyed, and not
\* replaced by a new node, runs neither its init hook nor its render and
\* gives it no children.
C11_DestroyedIsTerminal ==
  [][\A c \in Comps :
       (node_state[c] = "destroyed" /\ c \notin Created(hooks')) =>
         /\ inner'[c] = 0
         /\ children'[c] = <<>>
         /\ Pos(hooks', "on_init", c) = {}
         /\ Pos(hooks', "render", c) = {}]_vars

C13_ChildrenDestroyedFirst ==
  \A i, j \in 1..Len(hooks) :
    (/\ hooks[i].h \in DestroyHooks /\ hooks[j].h \in DestroyHooks
     /\ hooks[i].c \in AncestorsOf(hooks[j].c)) => j < i

\* the destroy of a component that had two children
C13_Witness ==
  /\ Pos(hooks, "on_before_destroy", "P") # {}
  /\ Pos(hooks, "unsubscribe_all", "A") # {}
  /\ Pos(hooks, "unsubscribe_all", "B") # {}

HookStep(q, h) ==
  CASE h = "create" -> "new"
    [] h \in {"cancel", "stopped", "unsubscribe_all"} -> q
    [] q = "new" /\ h = "on_init" -> "idle"
    [] q = "idle" /\ h = "on_before_update" -> "before"
    [] q = "before" /\ h = "render" -> "rendered"
    [] q = "rendered" /\ h = "on_after_update" -> "idle"
    [] q = "idle" /\ h = "on_before_destroy" -> "destroying"
    [] q = "destroying" /\ h = "on_after_destroy" -> "gone"
    [] OTHER -> "error"

RECURSIVE RunHooks(_, _, _)
RunHooks(q, log, c) ==
  IF log = <<>> THEN q
  ELSE RunHooks(IF Head(log).c = c THEN HookStep(q, Head(log).h) ELSE q, Tail(log), c)

HookStart(st) ==
  CASE st = "absent" -> "none" [] st = "unexpanded" -> "new"
    [] st = "expanded" -> "idle" [] st = "destroyed" -> "gone"

\* C15: hook order of every component instance: on_init once and first, every
\* render between its on_before_update and on_after_update, the destroy hooks
\* once each, in order, after on_init, and nothing after them.
C15_HookOrder ==
  [][/\ \A c \in Comps :
          RunHooks(HookStart(node_state[c]), hooks', c) \in {"none", "idle", "gone"}
     /\ \A i \in 1..Len(hooks') :
          hooks'[i].h = "render" =>
            /\ i > 1 /\ hooks'[i - 1] = [h |-> "on_before_update", c |-> hooks'[i].c]
            /\ i < Len(hooks') /\ hooks'[i + 1] = [h |-> "on_after_update", c |-> hooks'[i].c]]_vars

\* an update that destroyed an instance, rendered its parent and initialised
\* the instance that replaces it
C15_Witness ==
  /\ last.op = "update"
  /\ \E i \in Pos(hooks, "on_after_destroy", "A"), j \in Pos(hooks, "render", "P"),
        k \in Pos(hooks, "on_init", "A") : i < j /\ j < k

\* C16: update replaces the whole subtree.  When a node that stays is rendered
\* again, every node below it was destroyed (hooks run, unsubscribed) before
\* its on_before_update, every node below it afterwards is new and expanded,
\* and the node has one child.
C16_UpdateReplacesSubtree ==
  [][\A c \in Comps :
       (last'.op = "update" /\ render_count'[c] > 0 /\ c \notin Created(hooks')) =>
         /\ inner'[c] = 1
         /\ \A d \in SeqToSet(children[c]) :
              /\ \A h \in DestroyHooks : Pos(hooks', h, d) # {}
              /\ \A i \in Pos(hooks', "unsubscribe_all", d), j \in Pos(hooks', "on_before_update", c) : i < j
         /\ \A d \in SeqToSet(children'[c]) :
              /\ d \in Created(hooks') /\ node_state'[d] = "expanded" /\ inner'[d] = 1
              /\ \A i \in Pos(hooks', "create", d), j \in Pos(hooks', "render", c) : j < i
         /\ Len(children'[c]) = Cardinality(SeqToSet(children'[c]))]_vars

\* an update of P that replaced A and B by a new A
C16_Witness ==
  /\ last.op = "update" /\ render_count["P"] = 1
  /\ children["P"] = <<"A">>
  /\ Pos(hooks, "on_after_destroy", "A") # {} /\ Pos(hooks, "on_after_destroy", "B") # {}
  /\ Pos(hooks, "create", "A") # {}

C19_PersistentDropsOnlyOffending ==
  [][(last'.op = "ws_update" /\ invalid' > 0) =>
       /\ ws' = "open"
       /\ response'.status = "message"]_vars

\* C20: in stateless mode an exchange with an event whose arguments fail
\* validation ends with status 400, without HTML and without a state token.
C20_StatelessBadRequest ==
  [][(last'.op = "http_post" /\ invalid' > 0) =>
       response' = Response("400", FALSE, NoToken)]_vars

\* an exchange that handled an event and then met an event that fails validation
C20_Witness ==
  /\ last.op = "http_post" /\ invalid > 0 /\ handled["P"] > 0
  /\ response = Response("400", FALSE, NoToken)

\* the server issued the token and it has not expired at time t
ValidAt(token, t) ==
  \E data \in StateMaps, t0 \in 0..MaxNow :
    token = JWTStateResolver_create_token(Server, data, t0) /\ t <= t0 + MaxAge

\* C21: a session or an exchange started from a token that is expired,
\* malformed or not signed by the server raises nothing and starts from the
\* empty durable-state map.
C21_BadTokenStartsFresh ==
  (last.op \in {"get_state_from_token", "session_init"} /\ ~ValidAt(jwt, now))
    => (resolved.exc = None /\ DOMAIN resolved.val = {})

\* C22: round trip.  A token the server created for the map S resolves to S
\* at the same server before it expires.
C22_RoundTrip ==
  last.op = "resolve" =>
    \A data \in StateMaps, t0 \in 0..MaxNow :
      (jwt = JWTStateResolver_create_token(Server, data, t0) /\ now < t0 + MaxAge)
        => (resolved.exc = None /\ resolved.val = data)

C22_Witness ==
  /\ last.op = "resolve" /\ now > 0
  /\ \E data \in StateMaps :
       /\ Cardinality(DOMAIN data) >= 2
       /\ jwt = JWTStateResolver_create_token(Server, data, now)
       /\ resolved = Return(data)

\* C23: replay.  A new session initialised from a token issued earlier, with
\* no event, holds the durable state the store had when the token was issued
\* and renders the tree of that state, whatever was handled or issued since.
C23_ReplayReproduces ==
  last.op = "replay" =>
    /\ \A k \in Keys : (~Ephemeral(k) /\ ~Protocol(k)) => key_store[k] = kept.store[k]
    /\ \A k \in Keys : kept.token.data[k] # None => key_store[k] = kept.token.data[k]
    /\ children["P"] = (IF kept.store[KG] = "v2" THEN <<"A">> ELSE <<"A", "B">>)
    /\ render_count["P"] = 1

\* the issuing session had moved on from "v1" when the token was replayed
C23_Witness ==
  /\ last.op = "replay" /\ KG \in last.keys
  /\ kept.store[KG] = "v1" /\ key_store[KG] = "v1"

\* C24: the output events a render pass returns hold each distinct event at
\* most once.
C24_ReturnedEventsDistinct ==
  \A i, j \in 1..Len(returned) : i # j => returned[i] # returned[j]

\* the local-state key of the node that renders an item, in a list of nodes
ItemsOf(nodes) == {nodes[i].item : i \in DOMAIN nodes}
KeyOfItem(nodes, item) ==
  StateDescriptor_get_state_name(nodes[CHOOSE i \in DOMAIN nodes : nodes[i].item = item].stack)

\* C25: reorder.  When an update renders the same keyed items in another
\* order, every item keeps its context stack, its local-state key keeps its
\* value, and the item reads that value.
C25_ReorderKeepsState ==
  [][(last'.op = "list_update" /\ ItemsOf(lst'.nodes) = ItemsOf(lst.nodes))
       => \A i \in DOMAIN lst.nodes, j \in DOMAIN lst'.nodes :
            lst.nodes[i].item = lst'.nodes[j].item
              => /\ lst'.nodes[j].stack = lst.nodes[i].stack
                 /\ lst'.read[j] = key_store[StateDescriptor_get_state_name(lst.nodes[i].stack)]
                 /\ key_store'[StateDescriptor_get_state_name(lst'.nodes[j].stack)]
                      = key_store[StateDescriptor_get_state_name(lst.nodes[i].stack)]]_vars

\* three items with distinct local state were reordered to [c, a, b]
C25_Witness ==
  /\ last.op = "list_update"
  /\ last.ctx = "reorder"
  /\ Len(lst.nodes) = 3 /\ [i \in 1..3 |-> lst.nodes[i].item] = <<"c", "a", "b">>
  /\ lst.read = <<"v2", "v1", None>>

\* C26: removal.  When an update renders the list without one of its items,
\* the local-state key of that item is gone from the store afterwards and
\* the key of every remaining item holds what it held.
C26_RemovalPurgesItem ==
  [][(last'.op = "list_update" /\ ItemsOf(lst'.nodes) \subseteq ItemsOf(lst.nodes)
        /\ Cardinality(ItemsOf(lst.nodes) \ ItemsOf(lst'.nodes)) = 1)
       => /\ \A item \in ItemsOf(lst.nodes) \ ItemsOf(lst'.nodes) :
               key_store'[KeyOfItem(lst.nodes, item)] = None
          /\ \A item \in ItemsOf(lst'.nodes) :
               key_store'[KeyOfItem(lst'.nodes, item)] = key_store[KeyOfItem(lst.nodes, item)]]_vars

\* C27: in a persistent session a task added with add_job is never
\* cancelled, and the destroy of its component ends only after it is done.
C27_JobsRunToCompletion ==
  persistent =>
    \A i \in DOMAIN comp.tasks :
      comp.tasks[i].origin = "job" =>
        /\ comp.tasks[i].status \notin {"cancel_requested", "cancelled"}
        /\ comp.pc = "destroyed" => comp.tasks[i].status = "done"

\* C28: in a session that is not persistent add_job and add_worker create no
\* task and no step of a coroutine runs.
C28_NothingRunsStateless ==
  ~persistent => (comp.tasks = <<>> /\ last.op # "task_step")

\* both methods were called, and the component was destroyed
C28_Witness ==
  ~persistent /\ comp.closed = {"job", "worker"} /\ comp.pc = "destroyed"

\* C29: a destroy that has begun reaches on_after_destroy and the release of
\* the subscriptions.
C29_DestroyTerminates ==
  (comp.pc # "alive") ~> (comp.pc = "destroyed")

\* C30: a call of Session.update that started while another call was in
\* flight destroys and re-renders no node before that call has returned.
C30_CyclesSerialized ==
  last.op \in {"cycle_destroy", "cycle_render"} =>
    (cyc.actor \in Calls => cyc.calls[cyc.actor].behind = {})

\* C31: an update in which a render raised leaves the session destroyed, and
\* the context whose render raised is not among the roots awaiting render.
C31_FailedUpdateDestroys ==
  (last.op = "update" /\ raised # None) =>
    (phase = "destroyed" /\ pending_renders \cap code.faulty = {})

RenderOps == {"render_full", "render_partial"}

\* C32: a render pass changes neither the node tree, the store, the
\* subscriber sets nor the pending-update set, and a full render that follows
\* a full render returns the same HTML.
C32_RenderIsPure ==
  [][last'.op \in RenderOps =>
       /\ children' = children /\ inner' = inner /\ node_state' = node_state
       /\ key_store' = key_store /\ key_subscribers' = key_subscribers
       /\ pending_updates' = pending_updates
       /\ (last'.op = "render_full" /\ last.op = "render_full") => view'.parts = view.parts]_vars

\* two full renders in a row, of a tree of three components, with an update pending
C32_Witness ==
  /\ last.op = "render_full" /\ last.ctx = "render_full"
  /\ pending_updates # {}
  /\ LiveNodes(children) = {"P", "A", "B"}

\* the topmost live nodes among ids
Topmost(ch, ids) ==
  {n \in ids \cap (LiveNodes(ch) \cup {"root"}) : AncestorsOf(n) \cap ids = {}}

\* the root node of every HTML part
PartRoots(parts) == {parts[i][2] : i \in DOMAIN parts}

\* C33: every render pass empties the set of roots awaiting render; an
\* incremental pass emits one part for each topmost root updated since the
\* previous pass, and nothing when no update came in between.
C33_IncrementalEmitsUpdatedRoots ==
  [][last'.op \in RenderOps =>
       /\ pending_renders' = {}
       /\ last'.op = "render_partial" =>
            /\ PartRoots(view'.parts) = Topmost(children, view.updated)
            /\ Len(view'.parts) = Cardinality(Topmost(children, view.updated))
            /\ last.op \in RenderOps => view'.parts = <<>>]_vars

\* an incremental pass after two updates of different roots
C33_Witness ==
  /\ last.op = "render_partial"
  /\ PartRoots(view.parts) = {"A", "B"}

\* a pattern matches a path when the path is the texts of the pattern with a
\* value in the place of every parameter, a value holding "/" only where the
\* parameter ends with "*"
RECURSIVE Matches(_, _, _, _)
Matches(pattern, path, idx, from) ==
  IF idx > Len(pattern.params) THEN Slice(path, from, Len(path)) = pattern.parts[idx]
  ELSE /\ Slice(path, from, from + Len(pattern.parts[idx]) - 1) = pattern.parts[idx]
       /\ \E end \in (from + Len(pattern.parts[idx]) - 1)..Len(path) :
            /\ pattern.params[idx] \/ \A i \in (from + Len(pattern.parts[idx]))..end : path[i] # "/"
            /\ Matches(pattern, path, idx + 1, end + 1)

FirstMatching(routes, path) ==
  LET hits == {i \in DOMAIN routes : Matches(routes[i], path, 1, 1)}
  IN IF hits = {} THEN NotFound ELSE [route |-> CHOOSE i \in hits : \A j \in hits : i <= j]

\* C34: once the router is rendered for a location, its element is that of
\* the first route whose pattern matches the location, or the not-found
\* element when none matches.
C34_RouterFollowsLocation ==
  router.fresh => router.element = FirstMatching(router.routes, router.location)

\* C35: in one Session.update no component is rendered twice; a component
\* whose render requests an update is pending, with the signal set, when the
\* call returns; and a pending component that is still in the tree after the
\* next call was rendered exactly once by it.
C35_OwnRequestWaitsForNextUpdate ==
  [][last'.op = "update" =>
       \A c \in Comps :
         /\ render_count'[c] <= 1
         /\ (c \in code.selfreq /\ render_count'[c] = 1) => (c \in pending_updates' /\ update_event')
         /\ (c \in pending_updates /\ c \in LiveNodes(children')) => render_count'[c] = 1]_vars

\* two updates in a row, each of which rendered A, whose render requests an update
C35_Witness ==
  /\ last.op = "update" /\ last.ctx = "update"
  /\ "A" \in code.selfreq /\ render_count["A"] = 1 /\ render_count["P"] = 0
  /\ "A" \in pending_updates /\ update_event

WorkPending == pending_updates # {} \/ output_events # <<>>

\* C36: wait_for_update returns only while an update is pending or an output
\* event is queued, and a call that waits while there is such work returns
\* unless the work is withdrawn.
C36_WaitReturnsOnWork ==
  /\ [](last.op = "wait_return" => WorkPending)
  /\ (waiter.pc \in {"waiting", "sleeping"} /\ WorkPending) ~> (last.op = "wait_return" \/ ~WorkPending)

\* a call that woke up, found the work withdrawn, waited again and returned
C36_Witness ==
  last.op = "wait_return" /\ waiter.again /\ pending_updates # {}

\* C37: for every set of context ids, _find_roots yields each topmost node of
\* the tree whose id is in the set once, and nothing else: no node below
\* another yielded node, and nothing for an id that addresses no node.
C37_RootsAreTopmost ==
  \A ids \in SUBSET Contexts :
    /\ SeqToSet(Session_find_roots(children, ids)) = Topmost(children, ids)
    /\ Len(Session_find_roots(children, ids)) = Cardinality(Topmost(children, ids))

\* an update that drained a node and a node below it, in a tree without B
C37_Witness ==
  /\ last.op = "update" /\ {"P", "A"} \subseteq popped
  /\ LiveNodes(children) = {"P", "A"}
  /\ render_count["P"] = 1 /\ render_count["A"] = 1

\* C38: two different context stacks never give the same text to the hasher.
C38_SidInjective ==
  stacks.a # stacks.b => sid_text(stacks.a) # sid_text(stacks.b)

\* C39: a write to the local state of an instance changes neither the value
\* the instance at a different context stack reads as its local state nor
\* whether that instance is pending, and a write that changes the global
\* state leaves every instance that read it pending.
C39_LocalStateIsolated ==
  [][/\ last'.op = "local_write" =>
          \A j \in DOMAIN lst.nodes :
            lst.nodes[j].stack # lst.nodes[last'.ctx].stack =>
              /\ key_store'[StateDescriptor_get_state_name(lst.nodes[j].stack)]
                   = key_store[StateDescriptor_get_state_name(lst.nodes[j].stack)]
              /\ (lst.nodes[j].stack \in pending_updates')
                   = (lst.nodes[j].stack \in pending_updates)
     /\ (last'.op = "global_write"
           /\ key_store'[StateDescriptor_get_state_name_global]
                # key_store[StateDescriptor_get_state_name_global]) =>
          \A j \in DOMAIN lst.nodes : lst.nodes[j].stack \in pending_updates']_vars

\* C40: no message of the websocket loop carries a use-websocket event; the
\* message that answers an update during which a render called
\* use_websocket(False) carries a state token minted from the state the
\* executor then holds and from the token sent before, and the loop handles
\* no message after it.
C40_SocketLeavesCleanly ==
  [][/\ (last'.op = "socket_update" /\ ws' = "open") =>
          /\ \A i \in DOMAIN sent'.events : sent'.events[i].event # "use-websocket"
          /\ sent'.off =>
               /\ sent'.state_token = Token(State_user_data(Cur'))
               /\ sent'.from = sent.last_state_token
     /\ (sent.off /\ sent.rounds = 1) => last'.op # "socket_update"]_vars

====
